---- MODULE Spec2Model ----
(***************************************************************************)
(* A model of the Calendar-Agent core (src/src/services/openaiService.ts): *)
(* the time/duration parser, the event resolver, the conflict detector,    *)
(* the free-slot finder and the create/update/delete builders.             *)
(*                                                                         *)
(* Conventions.                                                            *)
(*  - An instant is an integer number of minutes of local time; a local    *)
(*    calendar day is 1440 consecutive minutes (no DST change is modelled).*)
(*  - A JavaScript string is a sequence of one-character strings.          *)
(*  - An optional field (undefined in the argument bag or in an event) is  *)
(*    a sequence of length 0 (absent) or 1 (present).                      *)
(*  - A date/time text is a record: kind "nl" with its characters, or kind *)
(*    "iso" for an ISO-8601 literal, which carries the instant it denotes. *)
(***************************************************************************)
EXTENDS Integers, Sequences, FiniteSets, TLC

VARIABLES now, events, backend, pc, request, response, calls, auth

vars == <<now, events, backend, pc, request, response, calls, auth>>

\* the state of the AuthProvider besides the held events: isAuthenticated,
\* whether the refresh interval is set, the getEvents requests in flight and
\* the await at which signIn or signOut stands
SignedIn == [isAuthenticated |-> TRUE, timer |-> TRUE, fetches |-> <<>>, step |-> "none"]

SignedOut == [isAuthenticated |-> FALSE, timer |-> FALSE, fetches |-> <<>>, step |-> "none"]

(***************************************************************************)
(* Strings                                                                 *)
(***************************************************************************)
UpperChars == <<"A","B","C","D","E","F","G","H","I","J","K","L","M",
                "N","O","P","Q","R","S","T","U","V","W","X","Y","Z">>

LowerChars == <<"a","b","c","d","e","f","g","h","i","j","k","l","m",
                "n","o","p","q","r","s","t","u","v","w","x","y","z">>

DigitChars == <<"0","1","2","3","4","5","6","7","8","9">>

IsDigit(c) == c \in {DigitChars[i] : i \in 1..10}

DigitValues == [c \in {DigitChars[i] : i \in 1..10} |-> (CHOOSE i \in 1..10 : DigitChars[i] = c) - 1]

DigitVal(c) == DigitValues[c]

\* \s of the regular expressions (the texts of the model hold only blanks)
IsSpace(c) == c = " "

LowerOfUpper == [c \in {UpperChars[i] : i \in 1..26} |->
                   LowerChars[CHOOSE i \in 1..26 : UpperChars[i] = c]]

LowerChar(c) == IF c \in DOMAIN LowerOfUpper THEN LowerOfUpper[c] ELSE c

\* String.prototype.toLowerCase
ToLower(s) == [i \in 1..Len(s) |-> LowerChar(s[i])]

\* String.prototype.includes
Includes(s, sub) ==
  \E i \in 0..(Len(s) - Len(sub)) : SubSeq(s, i + 1, i + Len(sub)) = sub

\* s[i], or "" past the end
At(s, i) == IF i >= 1 /\ i <= Len(s) THEN s[i] ELSE ""

\* the position after the blanks that start at i (\s* is greedy)
RECURSIVE SkipSpaces(_, _)
SkipSpaces(s, i) == IF IsSpace(At(s, i)) THEN SkipSpaces(s, i + 1) ELSE i

\* the position after the digits that start at i (\d+ is greedy)
RECURSIVE SkipDigits(_, _)
SkipDigits(s, i) == IF IsDigit(At(s, i)) THEN SkipDigits(s, i + 1) ELSE i

\* parseInt of the digits s[i..j-1]
RECURSIVE DigitsVal(_, _, _)
DigitsVal(s, i, j) ==
  IF j <= i THEN 0 ELSE DigitsVal(s, i, j - 1) * 10 + DigitVal(s[j - 1])

(***************************************************************************)
(* Dates                                                                   *)
(***************************************************************************)
MinutesPerDay == 1440

\* the local calendar day of an instant (Date.prototype.toDateString)
DayOf(t) == t \div MinutesPerDay

\* local midnight of the instant's day
Midnight(t) == DayOf(t) * MinutesPerDay

\* Date.prototype.setHours(h, m, 0, 0): hours and minutes past the day's
\* midnight, overflowing into the next days as JavaScript does
SetHours(t, h, m) == Midnight(t) + h * 60 + m

getLocalNow == now

getLocalToday == Midnight(getLocalNow)

\* a date/time text
NlText(chars) == [kind |-> "nl", t |-> 0, chars |-> chars]

\* Date.prototype.toISOString
ToISOString(t) == [kind |-> "iso", t |-> t, chars |-> <<>>]

\* an event's start or end: { dateTime } or { date } (or neither)
DateTimeOf(t) == [kind |-> "dateTime", t |-> t]

DateOf(d) == [kind |-> "date", t |-> d]

NoTime == [kind |-> "none", t |-> 0]

\* event.start.dateTime is truthy
HasDateTime(et) == et.kind = "dateTime"

\* new Date("YYYY-MM-DD"): the date's midnight (taken in the host's zone)
DateInstant(d) == d * MinutesPerDay

getLocalEventTime(et) ==
  IF et.kind = "dateTime" THEN et.t
  ELSE IF et.kind = "date" THEN DateInstant(et.t)
  ELSE getLocalNow

(***************************************************************************)
(* Clock-time pattern  /(\d{1,2})(?::(\d{2}))?\s*(am|pm)?/i                *)
(***************************************************************************)
\* the pattern applied at position i, where s[i] is a digit; every part after
\* the hour is optional and greedy, so the first attempt is the match
ClockAt(s, i) ==
  LET hEnd   == IF IsDigit(At(s, i + 1)) THEN i + 2 ELSE i + 1
      hasMin == At(s, hEnd) = ":" /\ IsDigit(At(s, hEnd + 1)) /\ IsDigit(At(s, hEnd + 2))
      mEnd   == IF hasMin THEN hEnd + 3 ELSE hEnd
      pPos   == SkipSpaces(s, mEnd)
      p1     == LowerChar(At(s, pPos))
      hasPer == (p1 = "a" \/ p1 = "p") /\ LowerChar(At(s, pPos + 1)) = "m"
  IN [hours   |-> DigitsVal(s, i, hEnd),
      minutes |-> IF hasMin THEN <<DigitsVal(s, hEnd + 1, hEnd + 3)>> ELSE <<>>,
      period  |-> IF ~hasPer THEN "" ELSE IF p1 = "a" THEN "am" ELSE "pm",
      next    |-> IF hasPer THEN pPos + 2 ELSE pPos]

\* the leftmost digit of s, 0 when there is none
FirstDigit(s) ==
  IF \E i \in 1..Len(s) : IsDigit(s[i])
  THEN CHOOSE i \in 1..Len(s) : IsDigit(s[i]) /\ \A j \in 1..(i - 1) : ~IsDigit(s[j])
  ELSE 0

\* "pm" adds 12 to every hour and "am" leaves every hour as it is
Hour24Added(hours, period) == IF period = "pm" THEN hours + 12 ELSE hours

\* "pm" and hour # 12 adds 12; "am" and hour = 12 gives 0
Hour24(hours, period) ==
  IF period = "pm" /\ hours # 12 THEN hours + 12
  ELSE IF period = "am" /\ hours = 12 THEN 0
  ELSE hours

MinuteOf(m) == IF m # <<>> THEN m[1] ELSE 0

parseTimeForDate(chars, baseDate) ==
  LET i == FirstDigit(chars) IN
  IF i # 0
  THEN LET c == ClockAt(chars, i)
       IN SetHours(baseDate, Hour24(c.hours, c.period), MinuteOf(c.minutes))
  ELSE baseDate

Today == <<"t","o","d","a","y">>

Tomorrow == <<"t","o","m","o","r","r","o","w">>

parseDateTime(text) ==
  IF text.kind = "iso" THEN text.t
  ELSE IF Includes(ToLower(text.chars), Today)
       THEN parseTimeForDate(text.chars, getLocalNow)
  ELSE IF Includes(ToLower(text.chars), Tomorrow)
       THEN parseTimeForDate(text.chars, getLocalNow + MinutesPerDay)
  ELSE IF FirstDigit(text.chars) # 0
       THEN parseTimeForDate(text.chars, getLocalNow)
  ELSE getLocalNow

(***************************************************************************)
(* Duration pattern  /(\d+)\s*(minutes?|hours?|mins?|hrs?|h|m)/i           *)
(***************************************************************************)
\* the pattern matches at i: a whole run of digits, blanks, then a unit, and
\* every unit starts with h or m, which are units themselves
DurationAt(s, i) ==
  /\ IsDigit(At(s, i))
  /\ LET u == LowerChar(At(s, SkipSpaces(s, SkipDigits(s, i))))
     IN u = "h" \/ u = "m"

DefaultDurationMinutes == 60

\* the amount read as minutes whatever the unit is
parseDurationAsMinutes(s) ==
  IF \E i \in 1..Len(s) : DurationAt(s, i)
  THEN LET i == CHOOSE k \in 1..Len(s) :
                  DurationAt(s, k) /\ \A j \in 1..(k - 1) : ~DurationAt(s, j)
       IN DigitsVal(s, i, SkipDigits(s, i))
  ELSE DefaultDurationMinutes

parseDurationToMinutes(s) ==
  IF \E i \in 1..Len(s) : DurationAt(s, i)
  THEN LET i == CHOOSE k \in 1..Len(s) :
                  DurationAt(s, k) /\ \A j \in 1..(k - 1) : ~DurationAt(s, j)
           e == SkipDigits(s, i)
           v == DigitsVal(s, i, e)
       IN IF LowerChar(At(s, SkipSpaces(s, e))) = "h" THEN v * 60 ELSE v
  ELSE DefaultDurationMinutes

(***************************************************************************)
(* Events and argument bags                                                *)
(***************************************************************************)
\* a CalendarEvent; description, attendees and location are optional
Event(id, summary, start, end) ==
  [id |-> id, summary |-> summary, description |-> <<>>,
   start |-> start, end |-> end, attendees |-> <<>>, location |-> <<>>]

\* the argument bag of a function call with no field set
NoArgs ==
  [summary |-> <<>>, description |-> <<>>, startTime |-> <<>>, endTime |-> <<>>,
   duration |-> <<>>, attendees |-> <<>>, location |-> <<>>,
   eventId |-> <<>>, eventTitle |-> <<>>, timeframe |-> <<>>,
   preferredDate |-> <<>>, preferredTimeRange |-> <<>>,
   recipients |-> <<>>, filter |-> <<>>]

\* a string field is truthy: present and not ""
Truthy(opt) == opt # <<>> /\ opt[1] # <<>>

\* a date/time text field is truthy
TruthyText(opt) == opt # <<>> /\ (opt[1].kind = "iso" \/ opt[1].chars # <<>>)

\* an array field is truthy: present (an empty array is truthy too)
TruthyArray(opt) == opt # <<>>

\* a || b on string fields
OrElse(opt, default) == IF Truthy(opt) THEN opt[1] ELSE default

(***************************************************************************)
(* Sorting: Array.prototype.sort by start time (stable).                   *)
(* Array.prototype.filter is SelectSeq.                                    *)
(***************************************************************************)
RECURSIVE InsertByStart(_, _)
InsertByStart(sorted, e) ==
  IF sorted = <<>> THEN <<e>>
  ELSE IF sorted[Len(sorted)].start <= e.start THEN Append(sorted, e)
  ELSE Append(InsertByStart(SubSeq(sorted, 1, Len(sorted) - 1), e), sorted[Len(sorted)])

RECURSIVE SortByStart(_)
SortByStart(s) ==
  IF s = <<>> THEN <<>>
  ELSE InsertByStart(SortByStart(SubSeq(s, 1, Len(s) - 1)), s[Len(s)])

(***************************************************************************)
(* Free-slot finder                                                        *)
(***************************************************************************)
\* the leftmost position where the range pattern
\* /(\d{1,2})(?::(\d{2}))?\s*(am|pm)?\s*-\s*(\d{1,2})(?::(\d{2}))?\s*(am|pm)?/i
\* matches: a clock, a dash between optional blanks, a clock
RangeAt(s, i) ==
  /\ IsDigit(At(s, i))
  /\ LET dash == SkipSpaces(s, ClockAt(s, i).next)
     IN At(s, dash) = "-" /\ IsDigit(At(s, SkipSpaces(s, dash + 1)))

Morning == <<"m","o","r","n","i","n","g">>

Afternoon == <<"a","f","t","e","r","n","o","o","n">>

Evening == <<"e","v","e","n","i","n","g">>

parseTimeRange(timeRange, date) ==
  IF \E i \in 1..Len(timeRange) : RangeAt(timeRange, i)
  THEN LET i == CHOOSE k \in 1..Len(timeRange) :
                  RangeAt(timeRange, k) /\ \A j \in 1..(k - 1) : ~RangeAt(timeRange, j)
           a == ClockAt(timeRange, i)
           b == ClockAt(timeRange, SkipSpaces(timeRange, SkipSpaces(timeRange, a.next) + 1))
       IN [startTime |-> SetHours(date, Hour24(a.hours, a.period), MinuteOf(a.minutes)),
           endTime   |-> SetHours(date, Hour24(b.hours, b.period), MinuteOf(b.minutes))]
  ELSE LET r == ToLower(timeRange)
           startHour == IF r = Morning THEN 8 ELSE IF r = Afternoon THEN 12
                        ELSE IF r = Evening THEN 17 ELSE 9
           endHour   == IF r = Morning THEN 12 ELSE IF r = Afternoon THEN 17
                        ELSE IF r = Evening THEN 21 ELSE 17
       IN [startTime |-> SetHours(date, startHour, 0),
           endTime   |-> SetHours(date, endHour, 0)]

getTargetDate(text) ==
  IF text.kind = "iso" THEN text.t
  ELSE IF Includes(ToLower(text.chars), Today) THEN getLocalToday
  ELSE IF Includes(ToLower(text.chars), Tomorrow) THEN getLocalToday + MinutesPerDay
  ELSE getLocalToday

\* the events of the list with a precise start, as { start, end } instants,
\* sorted by start
TimedSorted(evs) ==
  LET keep(e) == HasDateTime(e.start)
      timed   == SelectSeq(evs, keep)
  IN SortByStart([i \in 1..Len(timed) |-> [start |-> timed[i].start.t, end |-> timed[i].end.t]])

\* the lesser of the two
Smaller(a, b) == IF a <= b THEN a ELSE b

Max(a, b) == IF a >= b THEN a ELSE b

Min(a, b) == IF a <= b THEN a ELSE b

Slot(currentTime, durationMinutes) ==
  [start |-> currentTime, end |-> currentTime + durationMinutes]

\* the loop with a current time that stays at the start of the window
RECURSIVE SweepFromDayStart(_, _, _, _, _, _)
SweepFromDayStart(sorted, i, currentTime, slots, dayEnd, durationMinutes) ==
  IF i > Len(sorted)
  THEN IF dayEnd - currentTime >= durationMinutes
       THEN Append(slots, Slot(currentTime, durationMinutes))
       ELSE slots
  ELSE SweepFromDayStart(sorted, i + 1, currentTime,
                         IF sorted[i].start - currentTime >= durationMinutes
                         THEN Append(slots, Slot(currentTime, durationMinutes))
                         ELSE slots,
                         dayEnd, durationMinutes)

\* the loop without the check of the time that remains after the last event
RECURSIVE SweepBeforeEvents(_, _, _, _, _, _)
SweepBeforeEvents(sorted, i, currentTime, slots, dayEnd, durationMinutes) ==
  IF i > Len(sorted)
  THEN slots
  ELSE SweepBeforeEvents(sorted, i + 1, Max(currentTime, sorted[i].end),
                         IF sorted[i].start - currentTime >= durationMinutes
                         THEN Append(slots, Slot(currentTime, durationMinutes))
                         ELSE slots,
                         dayEnd, durationMinutes)

\* the loop of findFreeSlots from the i-th sorted event on, then the check of
\* the time that remains after the last event
RECURSIVE Sweep(_, _, _, _, _, _)
Sweep(sorted, i, currentTime, slots, dayEnd, durationMinutes) ==
  IF i > Len(sorted)
  THEN IF dayEnd - currentTime >= durationMinutes
       THEN Append(slots, Slot(currentTime, durationMinutes))
       ELSE slots
  ELSE Sweep(sorted, i + 1, Max(currentTime, sorted[i].end),
             IF sorted[i].start - currentTime >= durationMinutes
             THEN Append(slots, Slot(currentTime, durationMinutes))
             ELSE slots,
             dayEnd, durationMinutes)

findFreeSlots(evs, dayStart, dayEnd, durationMinutes) ==
  Sweep(TimedSorted(evs), 1, dayStart, <<>>, dayEnd, durationMinutes)

OneHour == <<"1"," ","h","o","u","r">>

NineToFive == <<"9","a","m","-","5","p","m">>

\* the start of an event as findAvailableTimeSlots reads it: dateTime || date
EventDate(e) == getLocalEventTime(e.start)

findAvailableTimeSlots(args, evs) ==
  LET duration    == OrElse(args.duration, OneHour)
      targetDate  == getTargetDate(IF TruthyText(args.preferredDate)
                                   THEN args.preferredDate[1] ELSE NlText(Today))
      range       == parseTimeRange(OrElse(args.preferredTimeRange, NineToFive), targetDate)
      onDay(e)    == e.start.kind # "none" /\ DayOf(EventDate(e)) = DayOf(targetDate)
      dayEvents   == SelectSeq(evs, onDay)
      minutes     == parseDurationToMinutes(duration)
  IN [kind |-> "slots", dayEvents |-> dayEvents,
      dayStart |-> range.startTime, dayEnd |-> range.endTime,
      durationMinutes |-> minutes,
      slots |-> findFreeSlots(dayEvents, range.startTime, range.endTime, minutes)]

(***************************************************************************)
(* The state machine: one message is handled at a time.  pc is "idle"      *)
(* between messages and "done" when the handler has returned its text;     *)
(* request is the function call the model chose, response what the handler *)
(* computed, calls the calls made to the calendar backend for the message. *)
(***************************************************************************)
NoRequest == [name |-> "", args |-> NoArgs]

NoResponse == [kind |-> "none"]

\* day 10, 08:15
Day0 == 10

At0(h, m) == Day0 * MinutesPerDay + h * 60 + m

Now0 == At0(8, 15)

\* backend-assigned identifiers: opaque strings of letters and digits
EventIds == << <<"a","9">>, <<"b","1","4">>, <<"c","1","2">>, <<"d","7">>, <<"e","3","0">> >>

Title(i) == <<"E","v","e","n","t"," ", DigitChars[i + 1]>>

\* the events of a list of { start, end }: the i-th has the i-th id
EventsOf(spans) ==
  [i \in 1..Len(spans) |-> Event(EventIds[i], Title(i), spans[i][1], spans[i][2])]

Span(h1, m1, h2, m2) == <<DateTimeOf(At0(h1, m1)), DateTimeOf(At0(h2, m2))>>

Lists(S, n) == UNION {[1..k -> S] : k \in 0..n}

NextMessage ==
  /\ pc = "done"
  /\ pc' = "idle"
  /\ request' = NoRequest
  /\ response' = NoResponse
  /\ calls' = <<>>
  /\ UNCHANGED <<now, events, backend, auth>>

(***************************************************************************)
(* find_available_time_slots                                               *)
(***************************************************************************)
MaxSlotEvents == 2

SlotSpans ==
  { Span(8, 0, 8, 30), Span(8, 0, 9, 30), Span(9, 0, 10, 0), Span(9, 30, 10, 30),
    Span(10, 0, 10, 0), Span(10, 0, 11, 0), Span(9, 0, 16, 30), Span(16, 0, 18, 0),
    Span(20, 0, 21, 0), Span(33, 0, 34, 0),
    <<DateOf(Day0), DateOf(Day0 + 1)>> }

SlotDurations == { <<>>, << <<"3","0"," ","m","i","n">> >>, << <<"2"," ","h","o","u","r","s">> >> }

SlotDates == { <<>>, <<NlText(Tomorrow)>> }

SlotRanges == { <<>>, <<Morning>>, << <<"1","p","m"," ","-"," ","3",":","3","0","p","m">> >> }

InitSlots ==
  /\ now = Now0
  /\ auth = SignedIn
  /\ events \in {EventsOf(f) : f \in Lists(SlotSpans, MaxSlotEvents)}
  /\ backend = <<>>
  /\ pc = "idle"
  /\ request = NoRequest
  /\ response = NoResponse
  /\ calls = <<>>

HandleFindAvailableTimeSlots ==
  /\ pc = "idle"
  /\ \E d \in SlotDurations, pd \in SlotDates, r \in SlotRanges :
       LET args == [NoArgs EXCEPT !.duration = d, !.preferredDate = pd,
                                  !.preferredTimeRange = r]
       IN /\ request' = [name |-> "find_available_time_slots", args |-> args]
          /\ response' = findAvailableTimeSlots(args, events)
  /\ pc' = "done"
  /\ UNCHANGED <<now, events, backend, calls, auth>>

NextSlots == HandleFindAvailableTimeSlots \/ NextMessage

SpecSlots == InitSlots /\ [][NextSlots]_vars

\* the timed events given to findFreeSlots
TimedOf(evs) == {evs[i] : i \in {j \in 1..Len(evs) : HasDateTime(evs[j].start)}}

SlotsAnswered ==
  /\ pc = "done"
  /\ response.kind = "slots"
  /\ response.durationMinutes > 0
  /\ response.dayStart <= response.dayEnd
  /\ \A e \in TimedOf(response.dayEvents) : e.start.t <= e.end.t

\* C1: every slot findFreeSlots returns is exactly D minutes long, lies within
\* [dayStart, dayEnd] and intersects no timed input event, also when events
\* start before dayStart or start or end after dayEnd.
C1_SlotsInWindowAndFree ==
  SlotsAnswered =>
    \A i \in 1..Len(response.slots) :
      LET s == response.slots[i] IN
      /\ s.end - s.start = response.durationMinutes
      /\ response.dayStart <= s.start
      /\ s.end <= response.dayEnd
      /\ \A e \in TimedOf(response.dayEvents) : s.end <= e.start.t \/ e.end.t <= s.start

(***************************************************************************)
(* find_conflicts                                                          *)
(***************************************************************************)
\* the model's calendar: every month has this many days
DaysPerMonth == 30

\* new Date(year, month + 1, 0): midnight of the last day of the month of t
MonthEnd(t) == ((DayOf(t) \div DaysPerMonth) * DaysPerMonth + DaysPerMonth - 1) * MinutesPerDay

Week == <<"w","e","e","k">>

ThisWeek == <<"t","h","i","s"," ","w","e","e","k">>

Month == <<"m","o","n","t","h">>

\* the switch on timeframe.toLowerCase(), shared by findConflicts and
\* listUpcomingEvents
TimeframeFilter(timeframe, evs) ==
  LET tf       == ToLower(timeframe)
      today    == getLocalToday
      tomorrow == today + MinutesPerDay
      weekEnd  == today + 7 * MinutesPerDay
      monthEnd == MonthEnd(getLocalNow)
      isToday(e)    == DayOf(getLocalEventTime(e.start)) = DayOf(today)
      isTomorrow(e) == DayOf(getLocalEventTime(e.start)) = DayOf(tomorrow)
      inWeek(e)     == getLocalEventTime(e.start) >= today /\ getLocalEventTime(e.start) <= weekEnd
      inMonth(e)    == getLocalEventTime(e.start) >= today /\ getLocalEventTime(e.start) <= monthEnd
  IN IF tf = Today THEN SelectSeq(evs, isToday)
     ELSE IF tf = Tomorrow THEN SelectSeq(evs, isTomorrow)
     ELSE IF tf = Week \/ tf = ThisWeek THEN SelectSeq(evs, inWeek)
     ELSE IF tf = Month THEN SelectSeq(evs, inMonth)
     ELSE evs

\* the bounds taken as exclusive
getConflictTypeAbove(overlapDuration) ==
  IF overlapDuration > 60 THEN "Major Conflict (1+ hour overlap)"
  ELSE IF overlapDuration > 30 THEN "Significant Conflict (30+ minutes)"
  ELSE IF overlapDuration > 15 THEN "Moderate Conflict (15+ minutes)"
  ELSE "Minor Conflict (< 15 minutes)"

getConflictType(overlapDuration) ==
  IF overlapDuration >= 60 THEN "Major Conflict (1+ hour overlap)"
  ELSE IF overlapDuration >= 30 THEN "Significant Conflict (30+ minutes)"
  ELSE IF overlapDuration >= 15 THEN "Moderate Conflict (15+ minutes)"
  ELSE "Minor Conflict (< 15 minutes)"

\* { ...event, start: getLocalEventTime(start), end: getLocalEventTime(end) }
LocalTimes(e) ==
  [e EXCEPT !.start = getLocalEventTime(e.start), !.end = getLocalEventTime(e.end)]

OverlapStart(event1, event2) == Max(event1.start, event2.start)

OverlapEnd(event1, event2) == Min(event1.end, event2.end)

OverlapsOrTouches(event1, event2) ==
  OverlapStart(event1, event2) <= OverlapEnd(event1, event2)

\* if (overlapStart < overlapEnd)
Overlaps(event1, event2) ==
  OverlapStart(event1, event2) < OverlapEnd(event1, event2)

Conflict(event1, event2) ==
  LET overlapDuration == OverlapEnd(event1, event2) - OverlapStart(event1, event2)
  IN [event1 |-> event1, event2 |-> event2, overlapDuration |-> overlapDuration,
      conflictType |-> getConflictType(overlapDuration)]

\* each sorted event compared with its successor alone
RECURSIVE ConflictPairsAdjacent(_, _, _, _)
ConflictPairsAdjacent(sorted, i, j, conflicts) ==
  IF i >= Len(sorted) THEN conflicts
  ELSE ConflictPairsAdjacent(sorted, i + 1, i + 2,
                             IF Overlaps(sorted[i], sorted[i + 1])
                             THEN Append(conflicts, Conflict(sorted[i], sorted[i + 1]))
                             ELSE conflicts)

\* for (i ...) for (j = i + 1 ...) over the sorted events
RECURSIVE ConflictPairs(_, _, _, _)
ConflictPairs(sorted, i, j, conflicts) ==
  IF i > Len(sorted) THEN conflicts
  ELSE IF j > Len(sorted) THEN ConflictPairs(sorted, i + 1, i + 2, conflicts)
  ELSE ConflictPairs(sorted, i, j + 1,
                     IF Overlaps(sorted[i], sorted[j])
                     THEN Append(conflicts, Conflict(sorted[i], sorted[j]))
                     ELSE conflicts)

findConflicts(timeframe, evs) ==
  LET timeframeEvents == TimeframeFilter(timeframe, evs)
      timed(e)        == HasDateTime(e.start)
      precise         == SelectSeq(timeframeEvents, timed)
      sortedEvents    == SortByStart([i \in 1..Len(precise) |-> LocalTimes(precise[i])])
  IN [kind |-> "conflicts", timeframeEvents |-> timeframeEvents,
      conflicts |-> ConflictPairs(sortedEvents, 1, 2, <<>>)]

MaxConflictEvents == 3

ConflictSpans ==
  { Span(9, 0, 9, 15), Span(9, 10, 9, 40), Span(9, 15, 10, 15), Span(9, 0, 11, 0),
    Span(33, 0, 34, 0), Span(33, 30, 33, 45),
    <<DateTimeOf(At0(8 * 24 + 9, 0)), DateTimeOf(At0(8 * 24 + 10, 0))>>,
    <<DateTimeOf(MonthEnd(Now0) + 10 * 60), DateTimeOf(MonthEnd(Now0) + 11 * 60)>>,
    <<DateOf(Day0), DateOf(Day0 + 1)>> }

All == <<"a","l","l">>

Timeframes == { Today, <<"T","o","d","a","y">>, Tomorrow, Week, ThisWeek, Month, All }

InitConflicts ==
  /\ now = Now0
  /\ auth = SignedIn
  /\ events \in {EventsOf(f) : f \in Lists(ConflictSpans, MaxConflictEvents)}
  /\ backend = <<>>
  /\ pc = "idle"
  /\ request = NoRequest
  /\ response = NoResponse
  /\ calls = <<>>

HandleFindConflicts ==
  /\ pc = "idle"
  /\ \E tf \in Timeframes :
       /\ request' = [name |-> "find_conflicts", args |-> [NoArgs EXCEPT !.timeframe = <<tf>>]]
       /\ response' = findConflicts(tf, events)
  /\ pc' = "done"
  /\ UNCHANGED <<now, events, backend, calls, auth>>

NextConflicts == HandleFindConflicts \/ NextMessage

SpecConflicts == InitConflicts /\ [][NextConflicts]_vars

ConflictsAnswered == pc = "done" /\ response.kind = "conflicts"

\* the conflicts reported for the unordered pair of events with ids a and b
ReportsOf(a, b) ==
  {k \in 1..Len(response.conflicts) :
     {response.conflicts[k].event1.id, response.conflicts[k].event2.id} = {a, b}}

StandupAndCall == EventsOf(<<Span(9, 0, 9, 15), Span(9, 10, 9, 40)>>)

\* C2: a pair of distinct events of the timeframe-filtered set is reported iff
\* both have a precise start and max(starts) < min(ends); it is reported once,
\* with overlap min(ends) - max(starts); whole-day events and events that only
\* touch are never reported; 09:00-09:15 and 09:10-09:40 today give exactly one
\* pair for 'today', of 5 minutes, minor.
C2_ConflictPairs ==
  ConflictsAnswered =>
    LET F == response.timeframeEvents IN
    /\ \A i \in 1..Len(F), j \in 1..Len(F) :
         i < j =>
           LET A == F[i]
               B == F[j]
               both == HasDateTime(A.start) /\ HasDateTime(B.start)
               lo == Max(A.start.t, B.start.t)
               hi == Min(A.end.t, B.end.t)
           IN IF both /\ lo < hi
              THEN /\ Cardinality(ReportsOf(A.id, B.id)) = 1
                   /\ \A k \in ReportsOf(A.id, B.id) :
                        response.conflicts[k].overlapDuration = hi - lo
              ELSE ReportsOf(A.id, B.id) = {}
    /\ \A k \in 1..Len(response.conflicts) :
         \E i \in 1..Len(F), j \in 1..Len(F) :
           /\ i # j
           /\ response.conflicts[k].event1.id = F[i].id
           /\ response.conflicts[k].event2.id = F[j].id
    /\ (events = StandupAndCall /\ request.args.timeframe = <<Today>>) =>
         /\ Len(response.conflicts) = 1
         /\ response.conflicts[1].overlapDuration = 5
         /\ response.conflicts[1].conflictType = "Minor Conflict (< 15 minutes)"

\* the end-to-end scenario was answered, and so was a list with a touching
\* pair and a whole-day event
C2_Witness ==
  /\ ConflictsAnswered
  /\ events = StandupAndCall
  /\ request.args.timeframe = <<Today>>
  /\ Len(response.conflicts) = 1

(***************************************************************************)
(* Event resolver                                                          *)
(***************************************************************************)
\* Date.prototype.getHours and getMinutes
HoursOf(t) == (t % MinutesPerDay) \div 60

MinutesOf(t) == t % 60

findEventsByTime(searchQuery, evs) ==
  LET i == FirstDigit(searchQuery) IN
  IF i = 0 THEN <<>>
  ELSE LET c            == ClockAt(searchQuery, i)
           searchHour   == Hour24(c.hours, c.period)
           searchMinute == MinuteOf(c.minutes)
           atTime(e)    == /\ HasDateTime(e.start)
                           /\ HoursOf(e.start.t) = searchHour
                           /\ MinutesOf(e.start.t) = searchMinute
       IN SelectSeq(evs, atTime)

Resolution(type, matches, matchType) ==
  [type |-> type, matches |-> matches, matchType |-> matchType,
   eventId |-> IF type = "found" THEN <<matches[1].id>> ELSE <<>>]

\* the decision taken on the matches of one stage
Decide(matches, matchType) ==
  Resolution(IF Len(matches) = 1 THEN "found" ELSE "multiple_found", matches, matchType)

PartialMatchesOneWay(searchLower, evs) ==
  LET partial(e) == Includes(ToLower(e.summary), searchLower) IN SelectSeq(evs, partial)

ExactMatches(searchLower, evs) ==
  LET exact(e) == ToLower(e.summary) = searchLower IN SelectSeq(evs, exact)

PartialMatches(searchLower, evs) ==
  LET partial(e) == \/ Includes(ToLower(e.summary), searchLower)
                    \/ Includes(searchLower, ToLower(e.summary))
  IN SelectSeq(evs, partial)

\* the returns of resolveEvent, on the matches of the three stages
Staged(exactMatches, partialMatches, timeMatches) ==
  IF Len(exactMatches) >= 1 THEN Decide(exactMatches, "exact title matches")
  ELSE IF Len(partialMatches) >= 1 THEN Decide(partialMatches, "partial title matches")
  ELSE IF Len(timeMatches) >= 1 THEN Decide(timeMatches, "time matches")
  ELSE Resolution("not_found", <<>>, "none")

ResolveStages(searchQuery, searchLower, evs) ==
  Staged(ExactMatches(searchLower, evs), PartialMatches(searchLower, evs),
         findEventsByTime(searchQuery, evs))

\* searchQuery is args.eventId || args.eventTitle || args.summary: "" when
\* none is truthy
resolveEvent(searchQuery, evs) ==
  IF searchQuery = <<>> THEN Resolution("not_found", <<>>, "no query")
  ELSE ResolveStages(searchQuery, ToLower(searchQuery), evs)

\* args.eventId || args.eventTitle || args.summary
SearchQuery(args) ==
  IF Truthy(args.eventId) THEN args.eventId[1]
  ELSE IF Truthy(args.eventTitle) THEN args.eventTitle[1]
  ELSE IF Truthy(args.summary) THEN args.summary[1]
  ELSE <<>>

(***************************************************************************)
(* The calendar backend: the list of the events it holds.  A call may fail *)
(* (network, permissions); get and update and delete of an event it does   *)
(* not hold fail.                                                          *)
(***************************************************************************)
Holds(store, eventId) == \E i \in 1..Len(store) : store[i].id = eventId

Stored(store, eventId) == store[CHOOSE i \in 1..Len(store) : store[i].id = eventId]

Call(op, eventId, resource, ok) ==
  [op |-> op, eventId |-> eventId, resource |-> resource, ok |-> ok]

Removed(store, eventId) ==
  LET other(e) == e.id # eventId IN SelectSeq(store, other)

(***************************************************************************)
(* delete_calendar_event                                                   *)
(***************************************************************************)
validateEventDelete(args) ==
  LET missing == IF ~Truthy(args.eventId) /\ ~Truthy(args.eventTitle) /\ ~Truthy(args.summary)
                 THEN <<"event identification">> ELSE <<>>
  IN [isValid |-> missing = <<>>, missing |-> missing]

\* the text of the catch block of createCalendarEvent, updateCalendarEvent
\* and deleteCalendarEvent
FailureMessage(kind) ==
  IF kind = "create"
  THEN "I couldn't create the event. Please check your calendar permissions and try again."
  ELSE IF kind = "update"
  THEN "I couldn't update the event. Please check your calendar permissions."
  ELSE "I couldn't delete the event. Please check your calendar permissions."

\* the first line of the text a handler returns
ResponseText(kind, outcome) ==
  IF outcome = "error" THEN FailureMessage(kind)
  ELSE IF outcome = "clarification"
  THEN IF kind = "create" THEN "I need a few more details to create your event:"
       ELSE IF kind = "update" THEN "I need more information to update your event:"
       ELSE "I need to know which event to delete:"
  ELSE IF outcome = "not_found" THEN "I couldn't find any events matching"
  ELSE IF outcome = "multiple_found" THEN "Multiple events found"
  ELSE IF outcome = "created" THEN "Event Created Successfully!"
  ELSE IF outcome = "updated" THEN "Event Updated Successfully!"
  ELSE "Event Deleted Successfully!"

\* the handler's result: its outcome and text, what it resolved, the event
\* it fetched and the resource it built
Outcome(kind, outcome, validation, resolution, existing, payload) ==
  [kind |-> kind, outcome |-> outcome, text |-> ResponseText(kind, outcome),
   validation |-> validation,
   resolution |-> resolution, existing |-> existing, payload |-> payload]

Result(outcome, backendCalls, store) ==
  [response |-> outcome, calls |-> backendCalls, backend |-> store]

\* the delete is issued whether or not the get succeeded
DeleteFoundUnfetched(validation, resolution, eventId, store, getOk, deleteOk) ==
  Result(Outcome("delete", IF deleteOk /\ Holds(store, eventId) THEN "deleted" ELSE "error",
                 validation, <<resolution>>, <<>>, <<>>),
         <<Call("get", <<eventId>>, <<>>, getOk /\ Holds(store, eventId)),
           Call("delete", <<eventId>>, <<>>, deleteOk /\ Holds(store, eventId))>>,
         IF deleteOk THEN Removed(store, eventId) ELSE store)

\* the try block of deleteCalendarEvent; getOk and deleteOk: whether the
\* backend answers the get and the delete
DeleteFound(validation, resolution, eventId, store, getOk, deleteOk) ==
  IF ~(getOk /\ Holds(store, eventId))
  THEN Result(Outcome("delete", "error", validation, <<resolution>>, <<>>, <<>>),
              <<Call("get", <<eventId>>, <<>>, FALSE)>>, store)
  ELSE Result(Outcome("delete", IF deleteOk THEN "deleted" ELSE "error", validation,
                      <<resolution>>, <<Stored(store, eventId)>>, <<>>),
              <<Call("get", <<eventId>>, <<>>, TRUE), Call("delete", <<eventId>>, <<>>, deleteOk)>>,
              IF deleteOk THEN Removed(store, eventId) ELSE store)

\* the first of several matches is taken
DeleteResolvedFirstMatch(validation, resolution, store, getOk, deleteOk) ==
  IF resolution.type = "not_found"
  THEN Result(Outcome("delete", resolution.type, validation, <<resolution>>, <<>>, <<>>),
              <<>>, store)
  ELSE DeleteFound(validation, resolution, resolution.matches[1].id, store, getOk, deleteOk)

DeleteResolved(validation, resolution, store, getOk, deleteOk) ==
  IF resolution.type # "found"
  THEN Result(Outcome("delete", resolution.type, validation, <<resolution>>, <<>>, <<>>),
              <<>>, store)
  ELSE DeleteFound(validation, resolution, resolution.eventId[1], store, getOk, deleteOk)

DeleteValidated(validation, args, evs, store, getOk, deleteOk) ==
  IF ~validation.isValid
  THEN Result(Outcome("delete", "clarification", validation, <<>>, <<>>, <<>>), <<>>, store)
  ELSE DeleteResolved(validation, resolveEvent(SearchQuery(args), evs), store, getOk, deleteOk)

deleteCalendarEvent(args, evs, store, getOk, deleteOk) ==
  DeleteValidated(validateEventDelete(args), args, evs, store, getOk, deleteOk)

(***************************************************************************)
(* update_calendar_event                                                   *)
(***************************************************************************)
\* the validation that does not count a duration as a field to change
validateEventUpdateWithoutDuration(args) ==
  LET noId == ~Truthy(args.eventId) /\ ~Truthy(args.eventTitle) /\ ~Truthy(args.summary)
      hasUpdateFields ==
        \/ Truthy(args.summary) \/ Truthy(args.description)
        \/ TruthyText(args.startTime) \/ TruthyText(args.endTime)
        \/ TruthyArray(args.attendees) \/ Truthy(args.location)
      missing == (IF noId THEN <<"event identification">> ELSE <<>>)
                 \o (IF ~hasUpdateFields THEN <<"update details">> ELSE <<>>)
  IN [isValid |-> missing = <<>>, missing |-> missing]

validateEventUpdate(args) ==
  LET noId == ~Truthy(args.eventId) /\ ~Truthy(args.eventTitle) /\ ~Truthy(args.summary)
      hasUpdateFields ==
        \/ Truthy(args.summary) \/ Truthy(args.description)
        \/ TruthyText(args.startTime) \/ TruthyText(args.endTime)
        \/ TruthyArray(args.attendees) \/ Truthy(args.location) \/ Truthy(args.duration)
      missing == (IF noId THEN <<"event identification">> ELSE <<>>)
                 \o (IF ~hasUpdateFields THEN <<"update details">> ELSE <<>>)
  IN [isValid |-> missing = <<>>, missing |-> missing]

\* args.attendees.map(email => ({ email }))
AttendeesOf(emails) == [i \in 1..Len(emails) |-> [email |-> emails[i], displayName |-> <<>>]]

\* the default the code starts from, kept whatever the existing event is
FixedDurationMinutes(existingEvent) == DefaultDurationMinutes

existingDurationMinutes(existingEvent) ==
  IF HasDateTime(existingEvent.start) /\ HasDateTime(existingEvent.end)
  THEN existingEvent.end.t - existingEvent.start.t
  ELSE DefaultDurationMinutes

\* eventData.start and eventData.end after "Handle time updates"
TimeUpdate(args, existingEvent) ==
  IF TruthyText(args.startTime)
  THEN LET newStartTime == parseDateTime(args.startTime[1])
       IN [start |-> <<DateTimeOf(newStartTime)>>,
           end   |-> IF ~TruthyText(args.endTime) /\ ~Truthy(args.duration)
                     THEN <<DateTimeOf(newStartTime + existingDurationMinutes(existingEvent))>>
                     ELSE <<>>]
  ELSE IF TruthyText(args.endTime)
  THEN [start |-> <<existingEvent.start>>,
        end   |-> <<DateTimeOf(parseDateTime(args.endTime[1]))>>]
  ELSE [start |-> <<existingEvent.start>>, end |-> <<existingEvent.end>>]

\* the override applied whenever a duration is given, counted from now when
\* there is no new start
DurationOverrideUnguarded(args, end) ==
  IF Truthy(args.duration)
  THEN <<DateTimeOf((IF TruthyText(args.startTime) THEN parseDateTime(args.startTime[1])
                     ELSE getLocalNow)
                    + parseDurationToMinutes(args.duration[1]))>>
  ELSE end

\* the override skipped when the request also gives an end time
DurationOverrideUnlessEnd(args, end) ==
  IF Truthy(args.duration) /\ TruthyText(args.startTime) /\ ~TruthyText(args.endTime)
  THEN <<DateTimeOf(parseDateTime(args.startTime[1]) + parseDurationToMinutes(args.duration[1]))>>
  ELSE end

\* eventData.end after "Handle duration override if provided"
DurationOverride(args, end) ==
  IF Truthy(args.duration) /\ TruthyText(args.startTime)
  THEN <<DateTimeOf(parseDateTime(args.startTime[1]) + parseDurationToMinutes(args.duration[1]))>>
  ELSE end

\* eventData.attendees set from the request only
RequestedAttendees(args, existingEvent) ==
  IF TruthyArray(args.attendees) THEN <<AttendeesOf(args.attendees[1])>> ELSE <<>>

\* "Preserve existing attendees unless new ones are provided"
MergedAttendees(args, existingEvent) ==
  IF TruthyArray(args.attendees) THEN <<AttendeesOf(args.attendees[1])>>
  ELSE existingEvent.attendees

\* "Preserve location unless new one is provided"
MergedLocation(args, existingEvent) ==
  IF Truthy(args.location) THEN args.location
  ELSE IF Truthy(existingEvent.location) THEN existingEvent.location
  ELSE <<>>

\* the resource sent with events.update; a key that is not set is absent
UpdateEventData(args, existingEvent) ==
  LET time == TimeUpdate(args, existingEvent) IN
  [summary     |-> IF Truthy(args.summary) THEN args.summary[1] ELSE existingEvent.summary,
   description |-> IF Truthy(args.description) THEN args.description
                   ELSE existingEvent.description,
   attendees   |-> MergedAttendees(args, existingEvent),
   location    |-> MergedLocation(args, existingEvent),
   start       |-> time.start,
   end         |-> DurationOverride(args, time.end)]

\* the event the backend holds once it accepted the resource
EventOfResource(eventId, eventData) ==
  [id |-> eventId, summary |-> eventData.summary, description |-> eventData.description,
   start |-> IF eventData.start # <<>> THEN eventData.start[1] ELSE NoTime,
   end |-> IF eventData.end # <<>> THEN eventData.end[1] ELSE NoTime,
   attendees |-> eventData.attendees, location |-> eventData.location]

Replaced(store, eventId, e) ==
  [i \in 1..Len(store) |-> IF store[i].id = eventId THEN e ELSE store[i]]

\* a rejected update is sent once more
UpdateExistingRetried(validation, resolution, eventId, existingEvent, eventData, store, updateOk) ==
  Result(Outcome("update", IF updateOk THEN "updated" ELSE "error", validation,
                 <<resolution>>, <<existingEvent>>, <<eventData>>),
         <<Call("get", <<eventId>>, <<>>, TRUE), Call("update", <<eventId>>, <<eventData>>, updateOk)>>
           \o (IF updateOk THEN <<>> ELSE <<Call("update", <<eventId>>, <<eventData>>, FALSE)>>),
         IF updateOk THEN Replaced(store, eventId, EventOfResource(eventId, eventData))
         ELSE store)

\* the try block of updateCalendarEvent
UpdateExisting(validation, resolution, eventId, existingEvent, eventData, store, updateOk) ==
  Result(Outcome("update", IF updateOk THEN "updated" ELSE "error", validation,
                 <<resolution>>, <<existingEvent>>, <<eventData>>),
         <<Call("get", <<eventId>>, <<>>, TRUE), Call("update", <<eventId>>, <<eventData>>, updateOk)>>,
         IF updateOk THEN Replaced(store, eventId, EventOfResource(eventId, eventData))
         ELSE store)

UpdateFound(validation, args, resolution, eventId, store, getOk, updateOk) ==
  IF ~(getOk /\ Holds(store, eventId))
  THEN Result(Outcome("update", "error", validation, <<resolution>>, <<>>, <<>>),
              <<Call("get", <<eventId>>, <<>>, FALSE)>>, store)
  ELSE UpdateExisting(validation, resolution, eventId, Stored(store, eventId),
                      UpdateEventData(args, Stored(store, eventId)), store, updateOk)

UpdateResolved(validation, args, resolution, store, getOk, updateOk) ==
  IF resolution.type # "found"
  THEN Result(Outcome("update", resolution.type, validation, <<resolution>>, <<>>, <<>>),
              <<>>, store)
  ELSE UpdateFound(validation, args, resolution, resolution.eventId[1], store, getOk, updateOk)

UpdateValidated(validation, args, evs, store, getOk, updateOk) ==
  IF ~validation.isValid
  THEN Result(Outcome("update", "clarification", validation, <<>>, <<>>, <<>>), <<>>, store)
  ELSE UpdateResolved(validation, args, resolveEvent(SearchQuery(args), evs), store, getOk, updateOk)

updateCalendarEvent(args, evs, store, getOk, updateOk) ==
  UpdateValidated(validateEventUpdate(args), args, evs, store, getOk, updateOk)

\* the handler has returned: its text, the calls it made, the backend after them
Answer(kind, r) ==
  /\ response' = r.response
  /\ calls' = r.calls
  /\ backend' = r.backend
  /\ pc' = "done"
  /\ UNCHANGED <<now, events, auth>>

\* the handlers of the two operations, over the argument bags of ArgSet
HandleDeleteCalendarEvent(ArgSet) ==
  /\ pc = "idle"
  /\ \E args \in ArgSet, getOk \in BOOLEAN, deleteOk \in BOOLEAN :
       /\ request' = [name |-> "delete_calendar_event", args |-> args]
       /\ Answer("delete", deleteCalendarEvent(args, events, backend, getOk, deleteOk))

HandleUpdateCalendarEvent(ArgSet) ==
  /\ pc = "idle"
  /\ \E args \in ArgSet, getOk \in BOOLEAN, updateOk \in BOOLEAN :
       /\ request' = [name |-> "update_calendar_event", args |-> args]
       /\ Answer("update", updateCalendarEvent(args, events, backend, getOk, updateOk))

(***************************************************************************)
(* create_calendar_event                                                   *)
(***************************************************************************)
meetingKeywords ==
  { <<"m","e","e","t","i","n","g">>,
    <<"m","e","e","t">>,
    <<"c","a","l","l">>,
    <<"c","o","n","f","e","r","e","n","c","e">>,
    <<"d","i","s","c","u","s","s","i","o","n">>,
    <<"r","e","v","i","e","w">>,
    <<"s","t","a","n","d","u","p">>,
    <<"s","y","n","c">>,
    <<"c","h","e","c","k","-","i","n">>,
    <<"c","h","e","c","k","i","n">>,
    <<"i","n","t","e","r","v","i","e","w">>,
    <<"p","r","e","s","e","n","t","a","t","i","o","n">>,
    <<"d","e","m","o">>,
    <<"w","o","r","k","s","h","o","p">>,
    <<"t","r","a","i","n","i","n","g">>,
    <<"b","r","a","i","n","s","t","o","r","m">>,
    <<"p","l","a","n","n","i","n","g">>,
    <<"r","e","t","r","o","s","p","e","c","t","i","v","e">>,
    <<"1",":","1">>,
    <<"o","n","e","-","o","n","-","o","n","e">>,
    <<"t","e","a","m">>,
    <<"c","l","i","e","n","t">>,
    <<"c","u","s","t","o","m","e","r">>,
    <<"s","t","a","k","e","h","o","l","d","e","r">> }

seemsLikeMeeting(summary) ==
  \E keyword \in meetingKeywords : Includes(ToLower(summary), keyword)

\* a character of the class [^\s@]
IsLocalChar(c) == ~IsSpace(c) /\ c # "@"

\* /^[^\s@]+@[^\s@]+\.[^\s@]+$/ : some "@" at a and some "." at d split the
\* text into three non-empty runs of [^\s@] (a "." is of the class itself)
isValidEmail(email) ==
  \E a \in 2..Len(email), d \in 4..(Len(email) - 1) :
    /\ email[a] = "@"
    /\ email[d] = "."
    /\ a + 1 < d
    /\ \A i \in (1..Len(email)) \ {a} : IsLocalChar(email[i])

validateEventCreation(args) ==
  LET missing ==
        (IF ~Truthy(args.summary) THEN <<"event title">> ELSE <<>>)
        \o (IF ~TruthyText(args.startTime) THEN <<"start time">> ELSE <<>>)
        \o (IF ~TruthyText(args.endTime) /\ ~Truthy(args.duration)
            THEN <<"end time or duration">> ELSE <<>>)
        \o (IF Truthy(args.summary) /\ seemsLikeMeeting(args.summary[1])
               /\ ~TruthyArray(args.attendees)
            THEN <<"attendee emails">> ELSE <<>>)
        \o (IF TruthyArray(args.attendees)
               /\ \E i \in 1..Len(args.attendees[1]) : ~isValidEmail(args.attendees[1][i])
            THEN <<"valid email addresses for attendees">> ELSE <<>>)
  IN [isValid |-> missing = <<>>, missing |-> missing]

\* args.endTime || (start + (duration or an hour)).toISOString()
CreateEndText(args) ==
  IF TruthyText(args.endTime) THEN args.endTime[1]
  ELSE ToISOString(parseDateTime(args.startTime[1])
                   + (IF Truthy(args.duration) THEN parseDurationToMinutes(args.duration[1])
                      ELSE DefaultDurationMinutes))

\* the resource sent with events.insert
CreateEventData(args) ==
  [summary     |-> args.summary[1],
   description |-> <<OrElse(args.description, <<>>)>>,
   attendees   |-> IF TruthyArray(args.attendees) THEN <<AttendeesOf(args.attendees[1])>>
                   ELSE <<>>,
   location    |-> IF Truthy(args.location) THEN args.location ELSE <<>>,
   start       |-> <<DateTimeOf(parseDateTime(args.startTime[1]))>>,
   end         |-> <<DateTimeOf(parseDateTime(CreateEndText(args)))>>]

\* the backend names the event it inserts
NewEventId(store) ==
  EventIds[CHOOSE i \in 1..Len(EventIds) :
             /\ ~Holds(store, EventIds[i])
             /\ \A j \in 1..(i - 1) : Holds(store, EventIds[j])]

\* the try block of createCalendarEvent; insertOk: whether the backend
\* accepts the insert
CreateValid(validation, eventData, store, insertOk) ==
  Result(Outcome("create", IF insertOk THEN "created" ELSE "error", validation,
                 <<>>, <<>>, <<eventData>>),
         <<Call("insert", <<>>, <<eventData>>, insertOk)>>,
         IF insertOk THEN Append(store, EventOfResource(NewEventId(store), eventData))
         ELSE store)

CreateValidated(validation, args, store, insertOk) ==
  IF ~validation.isValid
  THEN Result(Outcome("create", "clarification", validation, <<>>, <<>>, <<>>), <<>>, store)
  ELSE CreateValid(validation, CreateEventData(args), store, insertOk)

createCalendarEvent(args, store, insertOk) ==
  CreateValidated(validateEventCreation(args), args, store, insertOk)

HandleCreateCalendarEvent(ArgSet) ==
  /\ pc = "idle"
  /\ \E args \in ArgSet, insertOk \in BOOLEAN :
       /\ request' = [name |-> "create_calendar_event", args |-> args]
       /\ Answer("create", createCalendarEvent(args, backend, insertOk))

(***************************************************************************)
(* Resolution of the event an update or a delete refers to                 *)
(***************************************************************************)
MaxResolveEvents == 3

TeamSync == <<"T","e","a","m","S","y","n","c">>

SyncWithBob == <<"S","y","n","c","W","i","t","h","B","o","b">>

Sync == <<"S","y","n","c">>

Lunch == <<"L","u","n","c","h">>

\* title, start, end
ResolveProtos ==
  { <<TeamSync, DateTimeOf(At0(9, 30)), DateTimeOf(At0(10, 0))>>,
    <<SyncWithBob, DateTimeOf(At0(14, 0)), DateTimeOf(At0(15, 0))>>,
    <<Sync, DateTimeOf(At0(14, 0)), DateTimeOf(At0(14, 30))>>,
    <<Lunch, DateTimeOf(At0(12, 0)), DateTimeOf(At0(13, 0))>>,
    <<Lunch, DateOf(Day0), DateOf(Day0 + 1)>>,
    <<TeamSync, DateTimeOf(At0(33, 0)), DateTimeOf(At0(34, 0))>> }

TitledEventsOf(protos) ==
  [i \in 1..Len(protos) |-> Event(EventIds[i], protos[i][1], protos[i][2], protos[i][3])]

QuerySync == <<"s","y","n","c">>

QueryLunchWithBob == <<"L","U","N","C","H"," ","w","i","t","h"," ","B","o","b">>

Query2pm == <<"m","y"," ","2","p","m">>

Query930 == <<"9",":","3","0","a","m">>

QueryDentist == <<"d","e","n","t","i","s","t">>

Queries == { QuerySync, TeamSync, QueryLunchWithBob, Query2pm, Query930, QueryDentist }

RoomB == <<"R","o","o","m"," ","B">>

\* the ways a request names its event
Identifications ==
  {[NoArgs EXCEPT !.eventTitle = <<q>>] : q \in Queries}
  \cup {[NoArgs EXCEPT !.eventId = <<EventIds[i]>>] : i \in 1..MaxResolveEvents}
  \cup {[NoArgs EXCEPT !.eventId = <<EventIds[1]>>, !.eventTitle = <<TeamSync>>],
        [NoArgs EXCEPT !.summary = <<QuerySync>>],
        [NoArgs EXCEPT !.eventTitle = <<TeamSync>>, !.summary = <<Lunch>>],
        [NoArgs EXCEPT !.eventTitle = << <<>> >>],
        NoArgs}

ResolveDeleteArgs == Identifications

ResolveUpdateArgs == {[a EXCEPT !.location = <<RoomB>>] : a \in Identifications}

InitResolve ==
  /\ now = Now0
  /\ auth = SignedIn
  /\ events \in {TitledEventsOf(f) : f \in Lists(ResolveProtos, MaxResolveEvents)}
  /\ backend = events
  /\ pc = "idle"
  /\ request = NoRequest
  /\ response = NoResponse
  /\ calls = <<>>

NextResolve ==
  \/ HandleDeleteCalendarEvent(ResolveDeleteArgs)
  \/ HandleUpdateCalendarEvent(ResolveUpdateArgs)

SpecResolve == InitResolve /\ [][NextResolve]_vars

\* an update or a delete that passed validation and ran the resolver
Resolved ==
  /\ pc = "done"
  /\ response.kind \in {"update", "delete"}
  /\ response.resolution # <<>>

\* the events an exact title comparison, a substring comparison in either
\* direction and a time-of-day comparison select for the query
StageExact(q) == {i \in 1..Len(events) : ToLower(events[i].summary) = ToLower(q)}

StagePartial(q) ==
  {i \in 1..Len(events) :
     \/ Includes(ToLower(events[i].summary), ToLower(q))
     \/ Includes(ToLower(q), ToLower(events[i].summary))}

StageTime(q) ==
  {i \in 1..Len(events) :
     /\ FirstDigit(q) # 0
     /\ HasDateTime(events[i].start)
     /\ LET c == ClockAt(q, FirstDigit(q))
        IN /\ HoursOf(events[i].start.t) = Hour24(c.hours, c.period)
           /\ MinutesOf(events[i].start.t) = MinuteOf(c.minutes)}

FirstStage(q) ==
  IF StageExact(q) # {} THEN StageExact(q)
  ELSE IF StagePartial(q) # {} THEN StagePartial(q)
  ELSE StageTime(q)

FirstStageName(q) ==
  IF StageExact(q) # {} THEN "exact title matches"
  ELSE IF StagePartial(q) # {} THEN "partial title matches"
  ELSE IF StageTime(q) # {} THEN "time matches"
  ELSE "none"

TitlesOf(evs) == [i \in 1..Len(evs) |-> evs[i].summary]

\* C3: resolveEvent decides on the first of the stages exact title, substring
\* in either direction, time of day that matches anything: found with that
\* event's id iff the stage matched one event, multiple_found iff it matched
\* several, not_found iff no stage matched; with titles 'Team Sync' and 'Sync
\* with Bob', 'sync' is ambiguous with both and 'Team Sync' is unique.
C3_ResolverStaging ==
  Resolved =>
    LET q == SearchQuery(request.args)
        r == response.resolution[1]
        S == FirstStage(q)
    IN /\ r.type = "found" <=> Cardinality(S) = 1
       /\ r.type = "found" => \A i \in S : r.eventId = <<events[i].id>>
       /\ r.type = "multiple_found" <=> Cardinality(S) > 1
       /\ r.type = "multiple_found" =>
            {r.matches[k].id : k \in 1..Len(r.matches)} = {events[i].id : i \in S}
       /\ r.type = "not_found" <=> S = {}
       /\ r.type # "not_found" => r.matchType = FirstStageName(q)
       /\ (TitlesOf(events) = <<TeamSync, SyncWithBob>> /\ q = QuerySync) =>
            r.type = "multiple_found" /\ Len(r.matches) = 2
       /\ (TitlesOf(events) = <<TeamSync, SyncWithBob>> /\ q = TeamSync) =>
            r.type = "found" /\ r.eventId = <<events[1].id>>

\* 'sync' was asked of 'Team Sync' and 'Sync with Bob'
C3_Witness ==
  /\ Resolved
  /\ TitlesOf(events) = <<TeamSync, SyncWithBob>>
  /\ SearchQuery(request.args) = QuerySync
  /\ response.resolution[1].type = "multiple_found"

\* C9: an update or a delete whose eventId is the id of an event of the
\* snapshot targets exactly that event.
C9_EventIdTargetsItsEvent ==
  (/\ Resolved
   /\ Truthy(request.args.eventId)
   /\ \E i \in 1..Len(events) : events[i].id = request.args.eventId[1])
  => /\ response.resolution[1].type = "found"
     /\ response.resolution[1].eventId = request.args.eventId

(***************************************************************************)
(* Creating and updating events                                            *)
(***************************************************************************)
MaxEditEvents == 2

Weekly == <<"W","e","e","k","l","y">>

RoomA == <<"R","o","o","m"," ","A">>

Standup == <<"S","t","a","n","d","u","p">>

Dentist == <<"D","e","n","t","i","s","t">>

TeamMeeting == <<"T","e","a","m"," ","m","e","e","t","i","n","g">>

DemoDay == <<"D","E","M","O"," ","d","a","y">>

BobMail == <<"b","o","b","@","c","o","r","p",".","i","o">>

AnnMail == <<"a","n","n","@","x",".","c","o">>

\* no "@", no top-level part, a blank, two "@"
BadMails == { <<"b","o","b">>, <<"b","o","b","@","c","o","r","p">>, <<"b"," ","o","b","@","c","o","r","p",".","i","o">>, <<"b","o","b","@","@","c","o","r","p",".","i","o">> }

\* the events of the snapshot: a half-hour meeting with a description, a
\* guest and a room, a whole-day event, a bare event of an hour and a half,
\* a whole-day event with a guest
EditProtos ==
  << [Event(<<>>, TeamSync, DateTimeOf(At0(10, 0)), DateTimeOf(At0(10, 30)))
       EXCEPT !.description = <<Weekly>>, !.location = <<RoomA>>,
              !.attendees = << <<[email |-> BobMail, displayName |-> <<SyncWithBob>>]>> >>],
     Event(<<>>, Lunch, DateOf(Day0), DateOf(Day0 + 1)),
     Event(<<>>, Sync, DateTimeOf(At0(16, 0)), DateTimeOf(At0(17, 30))),
     [Event(<<>>, Dentist, DateOf(Day0 + 1), DateOf(Day0 + 2))
       EXCEPT !.attendees = << <<[email |-> AnnMail, displayName |-> <<>>]>> >>] >>

IdentifiedEventsOf(protos) ==
  [i \in 1..Len(protos) |-> [protos[i] EXCEPT !.id = EventIds[i]]]

\* the snapshots: up to MaxEditEvents of the events, in their order
EditSnapshots ==
  {IdentifiedEventsOf(LET picked(e) == e \in S IN SelectSeq(EditProtos, picked)) :
     S \in {P \in SUBSET {EditProtos[i] : i \in 1..Len(EditProtos)} :
              Cardinality(P) <= MaxEditEvents}}

StartTexts ==
  { NlText(<<"2","p","m">>), NlText(<<"t","o","m","o","r","r","o","w"," ","2","p","m">>), ToISOString(At0(14, 0)) }

EndTexts ==
  { NlText(<<"3","p","m">>), NlText(<<"t","o","m","o","r","r","o","w"," ","a","t"," ","3",":","3","0"," ","P","M">>), NlText(<<"9","a","m">>) }

DurationTexts == { <<"4","5"," ","m","i","n","u","t","e","s">>, <<"2"," ","h","o","u","r","s">> }

Opt(S) == {<<>>} \cup {<<x>> : x \in S}

\* the time fields of a request
TimeParts ==
  {[NoArgs EXCEPT !.startTime = st, !.endTime = en, !.duration = du] :
     st \in Opt(StartTexts), en \in Opt(EndTexts), du \in Opt(DurationTexts)}

\* the other fields of an update request
UpdateFieldParts ==
  { NoArgs,
    [NoArgs EXCEPT !.summary = <<Standup>>],
    [NoArgs EXCEPT !.description = <<Standup>>],
    [NoArgs EXCEPT !.attendees = << <<>> >>],
    [NoArgs EXCEPT !.attendees = << <<AnnMail>> >>],
    [NoArgs EXCEPT !.location = <<RoomB>>],
    [NoArgs EXCEPT !.location = << <<>> >>, !.description = << <<>> >>],
    [NoArgs EXCEPT !.summary = <<Standup>>, !.description = <<Standup>>,
                   !.attendees = << <<AnnMail, BobMail>> >>, !.location = <<RoomB>>] }

EditTitles == { TeamSync, Lunch, Sync, Dentist }

EditUpdateArgs ==
  {[f EXCEPT !.startTime = t.startTime, !.endTime = t.endTime, !.duration = t.duration,
             !.eventTitle = <<q>>] :
     f \in UpdateFieldParts, t \in TimeParts, q \in EditTitles}
  \cup {[NoArgs EXCEPT !.summary = <<Lunch>>], [NoArgs EXCEPT !.startTime = <<NlText(<<"2","p","m">>)>>]}

CreateTitles == { <<>>, << <<>> >>, <<Dentist>>, <<TeamMeeting>>, <<DemoDay>>, <<Lunch>> }

CreateGuests ==
  { <<>>, << <<>> >>, << <<AnnMail>> >>, << <<AnnMail, BobMail>> >>, << <<AnnMail, <<"b","o","b","@","c","o","r","p">>>> >> }
  \cup { << <<m>> >> : m \in BadMails }

EditCreateArgs ==
  {[t EXCEPT !.summary = su, !.attendees = at] :
     t \in TimeParts, su \in CreateTitles, at \in CreateGuests}
  \cup {[NoArgs EXCEPT !.summary = <<Dentist>>, !.startTime = <<NlText(<<"2","p","m">>)>>,
                       !.duration = <<<<"4","5"," ","m","i","n","u","t","e","s">>>>, !.location = <<RoomB>>,
                       !.description = <<Weekly>>]}

InitEdit ==
  /\ now = Now0
  /\ auth = SignedIn
  /\ events \in EditSnapshots
  /\ backend = events
  /\ pc = "idle"
  /\ request = NoRequest
  /\ response = NoResponse
  /\ calls = <<>>

NextEdit ==
  \/ HandleCreateCalendarEvent(EditCreateArgs)
  \/ HandleUpdateCalendarEvent(EditUpdateArgs)

SpecEdit == InitEdit /\ [][NextEdit]_vars

\* an update that got as far as sending its resource to the backend
UpdateSent ==
  /\ pc = "done"
  /\ response.kind = "update"
  /\ response.payload # <<>>

\* a create that got as far as sending its resource to the backend
CreateSent ==
  /\ pc = "done"
  /\ response.kind = "create"
  /\ response.payload # <<>>

OnlyStartTime(args) ==
  TruthyText(args.startTime) /\ ~TruthyText(args.endTime) /\ ~Truthy(args.duration)

EmailsOf(attendees) == [i \in 1..Len(attendees) |-> attendees[i].email]

\* C4: an update with only a new startTime, of an event with precise start
\* and end, sends start = the parsed new start and end = the new start plus
\* the existing event's length; 10:00-10:30 moved to 14:00 becomes
\* 14:00-14:30.
C4_OnlyStartKeepsDuration ==
  (/\ UpdateSent
   /\ OnlyStartTime(request.args)
   /\ HasDateTime(response.existing[1].start)
   /\ HasDateTime(response.existing[1].end))
  => LET x        == response.existing[1]
         p        == response.payload[1]
         newStart == parseDateTime(request.args.startTime[1])
     IN /\ p.start = <<DateTimeOf(newStart)>>
        /\ p.end = <<DateTimeOf(newStart + (x.end.t - x.start.t))>>
        /\ request.args.startTime[1] = NlText(<<"2","p","m">>) => newStart = At0(14, 0)
        /\ request.args.startTime[1] = NlText(<<"t","o","m","o","r","r","o","w"," ","2","p","m">>) => newStart = At0(24 + 14, 0)
        /\ (x.start.t = At0(10, 0) /\ x.end.t = At0(10, 30) /\ newStart = At0(14, 0))
             => p.end = <<DateTimeOf(At0(14, 30))>>

\* the 10:00-10:30 event was moved to 2pm
C4_Witness ==
  /\ UpdateSent
  /\ OnlyStartTime(request.args)
  /\ response.existing[1].start = DateTimeOf(At0(10, 0))
  /\ response.existing[1].end = DateTimeOf(At0(10, 30))
  /\ response.payload[1].start = <<DateTimeOf(At0(14, 0))>>
  /\ response.payload[1].end = <<DateTimeOf(At0(14, 30))>>

\* C5: every update resource sent to the backend has a start and an end, and
\* a request with a new startTime and a new endTime (no duration) sends the
\* parsed startTime as start and the parsed endTime as end.
C5_UpdateSendsStartAndEnd ==
  UpdateSent =>
    LET a == request.args
        p == response.payload[1]
    IN /\ p.start # <<>>
       /\ p.end # <<>>
       /\ (TruthyText(a.startTime) /\ TruthyText(a.endTime) /\ ~Truthy(a.duration))
            => /\ p.start = <<DateTimeOf(parseDateTime(a.startTime[1]))>>
               /\ p.end = <<DateTimeOf(parseDateTime(a.endTime[1]))>>

\* C6: on update, title, description, attendees and location are the
\* request's when it supplies them and the existing event's otherwise; an
\* update of the time alone keeps the attendee list and the location.
C6_FieldsMergedOnUpdate ==
  UpdateSent =>
    LET a == request.args
        x == response.existing[1]
        p == response.payload[1]
    IN /\ p.summary = (IF Truthy(a.summary) THEN a.summary[1] ELSE x.summary)
       /\ p.description = (IF Truthy(a.description) THEN a.description ELSE x.description)
       /\ a.attendees # <<>> => /\ p.attendees # <<>>
                                /\ EmailsOf(p.attendees[1]) = a.attendees[1]
       /\ a.attendees = <<>> => p.attendees = x.attendees
       /\ p.location = (IF Truthy(a.location) THEN a.location ELSE x.location)
       /\ (~Truthy(a.summary) /\ ~Truthy(a.description) /\ a.attendees = <<>>
           /\ ~Truthy(a.location))
            => /\ p.attendees = x.attendees
               /\ p.location = x.location
               /\ p.summary = x.summary
               /\ p.description = x.description

\* the time alone of the meeting with a guest and a room was changed
C6_Witness ==
  /\ UpdateSent
  /\ request.args.attendees = <<>>
  /\ ~Truthy(request.args.location)
  /\ TruthyText(request.args.startTime)
  /\ response.existing[1].attendees # <<>>
  /\ response.existing[1].location = <<RoomA>>
  /\ response.payload[1].attendees = response.existing[1].attendees
  /\ response.payload[1].location = <<RoomA>>

\* C7: a create or update resource sent to the backend with precise start
\* and end has start <= end.
C7_StartNotAfterEnd ==
  (UpdateSent \/ CreateSent) =>
    LET p == response.payload[1]
    IN (/\ p.start # <<>> /\ p.end # <<>>
        /\ HasDateTime(p.start[1]) /\ HasDateTime(p.end[1]))
       => p.start[1].t <= p.end[1].t

\* C8: an update resource has the same representation on start and end: both
\* a dateTime or both a date.
C8_SameRepresentation ==
  (UpdateSent /\ response.payload[1].start # <<>> /\ response.payload[1].end # <<>>)
  => response.payload[1].start[1].kind = response.payload[1].end[1].kind

\* the request names at least one attendee
SuppliesAttendee(args) == args.attendees # <<>> /\ Len(args.attendees[1]) >= 1

\* C10: validateEventCreation succeeds iff title, start and (end or
\* duration) are present, every supplied email has the shape local@domain.tld
\* and a title with a meeting keyword comes with at least one attendee; when
\* it fails, createCalendarEvent answers with the clarification and inserts
\* nothing.
C10_CreateValidation ==
  (pc = "done" /\ response.kind = "create") =>
    LET a == request.args
        complete ==
          /\ Truthy(a.summary)
          /\ TruthyText(a.startTime)
          /\ TruthyText(a.endTime) \/ Truthy(a.duration)
          /\ a.attendees # <<>> =>
               \A i \in 1..Len(a.attendees[1]) : isValidEmail(a.attendees[1][i])
          /\ seemsLikeMeeting(a.summary[1]) => SuppliesAttendee(a)
    IN /\ response.validation.isValid <=> complete
       /\ ~response.validation.isValid =>
            /\ response.outcome = "clarification"
            /\ calls = <<>>
            /\ backend = events

(***************************************************************************)
(* One message, any operation                                              *)
(***************************************************************************)
\* the ways a request names its event: two titles at once, one title, a
\* title of no event, nothing
QuerySyn == <<"s","y","n">>

RequestQueries == { <<QuerySyn>>, <<TeamSync>>, <<Lunch>>, <<QueryDentist>>, <<>> }

\* an event named by its id, by its summary, or by a title that is ""
RequestIdentifications ==
  { [NoArgs EXCEPT !.eventId = <<EventIds[1]>>],
    [NoArgs EXCEPT !.summary = <<Lunch>>],
    [NoArgs EXCEPT !.eventTitle = << <<>> >>] }

RequestDeleteArgs ==
  {[NoArgs EXCEPT !.eventTitle = q] : q \in RequestQueries} \cup RequestIdentifications

\* one field to change at a time, or none, or fields that are "" only
RequestChanges ==
  { NoArgs,
    [NoArgs EXCEPT !.summary = <<Standup>>],
    [NoArgs EXCEPT !.description = <<Weekly>>],
    [NoArgs EXCEPT !.endTime = <<NlText(<<"3","p","m">>)>>],
    [NoArgs EXCEPT !.attendees = << <<>> >>],
    [NoArgs EXCEPT !.duration = <<<<"4","5"," ","m","i","n","u","t","e","s">>>>],
    [NoArgs EXCEPT !.location = << <<>> >>, !.description = << <<>> >>] }

RequestUpdateArgs ==
  {[NoArgs EXCEPT !.eventTitle = q, !.startTime = st, !.location = lo] :
     q \in RequestQueries, st \in {<<>>, <<NlText(<<"2","p","m">>)>>},
     lo \in {<<>>, <<RoomB>>}}
  \cup {[c EXCEPT !.eventTitle = q] : c \in RequestChanges, q \in {<<>>, <<TeamSync>>}}
  \cup {[i EXCEPT !.location = lo] : i \in RequestIdentifications, lo \in {<<>>, <<RoomB>>}}

RequestCreateArgs ==
  {[NoArgs EXCEPT !.summary = su, !.startTime = <<NlText(<<"2","p","m">>)>>,
                  !.duration = du, !.attendees = at] :
     su \in {<<>>, <<Dentist>>, <<TeamMeeting>>},
     du \in Opt(DurationTexts),
     at \in {<<>>, << <<AnnMail>> >>, << <<BobMail, <<"b","o","b">> >> >>}}

InitRequests ==
  /\ now = Now0
  /\ auth = SignedIn
  /\ events \in EditSnapshots
  /\ backend = events
  /\ pc = "idle"
  /\ request = NoRequest
  /\ response = NoResponse
  /\ calls = <<>>

NextRequests ==
  \/ HandleCreateCalendarEvent(RequestCreateArgs)
  \/ HandleUpdateCalendarEvent(RequestUpdateArgs)
  \/ HandleDeleteCalendarEvent(RequestDeleteArgs)
  \/ HandleFindConflicts
  \/ HandleFindAvailableTimeSlots

SpecRequests == InitRequests /\ [][NextRequests]_vars

\* a create, update or delete request was handled
Handled == pc = "done" /\ response.kind \in {"create", "update", "delete"}

Mutations == {"insert", "update", "delete"}

\* the terminal state of a handled request
Terminal ==
  IF response.outcome = "clarification" THEN "ClarificationNeeded"
  ELSE IF response.outcome = "multiple_found" THEN "Ambiguous"
  ELSE IF response.outcome = "not_found" THEN "NotFound"
  ELSE IF response.outcome \in {"created", "updated", "deleted"} THEN "Succeeded"
  ELSE IF response.outcome = "error" THEN "BackendError"
  ELSE "none"

\* C11: a create, update or delete request ends in exactly one of
\* ClarificationNeeded, Ambiguous, NotFound, Succeeded, BackendError with one
\* text; a mutation is issued only after validation passed and, for update
\* and delete, after the resolver found a unique event; a request ending in
\* ClarificationNeeded, Ambiguous or NotFound issues no backend call.
C11_TerminalStates ==
  Handled =>
    /\ Terminal \in {"ClarificationNeeded", "Ambiguous", "NotFound", "Succeeded",
                     "BackendError"}
    /\ response.text = ResponseText(response.kind, response.outcome)
    /\ Terminal = "ClarificationNeeded" <=> ~response.validation.isValid
    /\ Terminal = "Ambiguous" <=>
         (response.resolution # <<>> /\ response.resolution[1].type = "multiple_found")
    /\ Terminal = "NotFound" <=>
         (response.resolution # <<>> /\ response.resolution[1].type = "not_found")
    /\ \A k \in 1..Len(calls) :
         calls[k].op \in Mutations =>
           /\ response.validation.isValid
           /\ response.kind \in {"update", "delete"} =>
                /\ response.resolution # <<>>
                /\ response.resolution[1].type = "found"
                /\ Len(response.resolution[1].matches) = 1
                /\ calls[k].eventId = <<response.resolution[1].matches[1].id>>
    /\ Terminal \in {"ClarificationNeeded", "Ambiguous", "NotFound"} =>
         calls = <<>> /\ backend = events
    /\ Terminal = "Succeeded" =>
         \E k \in 1..Len(calls) : calls[k].op \in Mutations /\ calls[k].ok

\* a delete by a title that two events carry ended Ambiguous
C11_Witness ==
  /\ Handled
  /\ response.kind = "delete"
  /\ Terminal = "Ambiguous"
  /\ Len(response.resolution[1].matches) = 2
  /\ calls = <<>>

\* C12: when a backend call fails the request ends in BackendError with the
\* failure message of its operation, the call is not retried and no call
\* follows it: no update and no delete after a failed get.
C12_BackendFailure ==
  (Handled /\ \E k \in 1..Len(calls) : ~calls[k].ok) =>
    /\ Terminal = "BackendError"
    /\ response.text = FailureMessage(response.kind)
    /\ ~calls[Len(calls)].ok
    /\ \A k \in 1..(Len(calls) - 1) : calls[k].ok
    /\ \A j \in 1..Len(calls), k \in 1..Len(calls) : calls[j].op = calls[k].op => j = k
    /\ backend = events

\* the get of an update failed
C12_Witness ==
  /\ Handled
  /\ response.kind = "update"
  /\ calls # <<>>
  /\ calls[1].op = "get"
  /\ ~calls[1].ok
  /\ Len(calls) = 1
  /\ Terminal = "BackendError"

\* C13: handling one message issues at most one call to the backend.
C13_AtMostOneCall == pc = "done" => Len(calls) <= 1

\* C13, as the code has it: no call for a read-only operation, at most one
\* for create, and for update and delete at most one get followed, only when
\* the get succeeded, by at most one mutation.
C13_AtMostOneMutation ==
  pc = "done" =>
    /\ response.kind \notin {"create", "update", "delete"} => calls = <<>>
    /\ response.kind = "create" => Len(calls) <= 1
    /\ Len(calls) <= 2
    /\ Cardinality({k \in 1..Len(calls) : calls[k].op \in Mutations}) <= 1
    /\ Len(calls) = 2 =>
         /\ calls[1].op = "get" /\ calls[1].ok
         /\ calls[2].op \in {"update", "delete"}
         /\ calls[2].eventId = calls[1].eventId

\* an update fetched the event and then replaced it
C13_Witness ==
  /\ Handled
  /\ response.kind = "update"
  /\ Len(calls) = 2
  /\ calls[2].op = "update"

(***************************************************************************)
(* Meeting statistics                                                      *)
(***************************************************************************)
\* the number n / d
Ratio(n, d) == [num |-> n, den |-> d]

\* event.start.dateTime && event.end.dateTime
IsPrecise(e) == HasDateTime(e.start) /\ HasDateTime(e.end)

\* totalMinutes after the forEach
RECURSIVE TotalMinutes(_)
TotalMinutes(evs) ==
  IF evs = <<>> THEN 0
  ELSE TotalMinutes(SubSeq(evs, 1, Len(evs) - 1))
       + (IF IsPrecise(evs[Len(evs)]) THEN evs[Len(evs)].end.t - evs[Len(evs)].start.t
          ELSE 0)

\* startDate.toISOString().split('T')[0]: the day of the instant, the host's
\* zone being UTC
DayKey(t) == DayOf(t)

\* meetingsByDay after the forEach: a count for each day key that was met
MeetingsByDay(evs) ==
  LET precise(e) == IsPrecise(e)
      counted    == SelectSeq(evs, precise)
  IN [d \in {DayKey(counted[i].start.t) : i \in 1..Len(counted)} |->
        Cardinality({i \in 1..Len(counted) : DayKey(counted[i].start.t) = d})]

calculateMeetingStats(evs) ==
  [kind |-> "stats",
   totalMeetings |-> Len(evs),
   totalHours |-> Ratio(TotalMinutes(evs), 60),
   averageMeetingDuration |-> IF Len(evs) > 0 THEN Ratio(TotalMinutes(evs), Len(evs))
                              ELSE Ratio(0, 1),
   meetingsByDay |-> MeetingsByDay(evs)]

MaxStatEvents == 3

StatSpans ==
  { Span(9, 0, 10, 0), Span(11, 0, 11, 30), Span(33, 0, 34, 30),
    <<DateOf(Day0), DateOf(Day0 + 1)>>, <<DateOf(Day0 + 1), DateOf(Day0 + 3)>> }

InitStats ==
  /\ now = Now0
  /\ auth = SignedIn
  /\ events \in {EventsOf(f) : f \in Lists(StatSpans, MaxStatEvents)}
  /\ backend = events
  /\ pc = "idle"
  /\ request = NoRequest
  /\ response = NoResponse
  /\ calls = <<>>

\* meetingsByDay[dayKey] = (meetingsByDay[dayKey] || 0) + 1
Counted(meetingsByDay, dayKey) ==
  [d \in DOMAIN meetingsByDay \cup {dayKey} |->
     IF d = dayKey THEN (IF d \in DOMAIN meetingsByDay THEN meetingsByDay[d] ELSE 0) + 1
     ELSE meetingsByDay[d]]

\* the forEach of CalendarService.calculateMeetingStats from the i-th event
\* on; acc holds totalMinutes and meetingsByDay
RECURSIVE ForEachEvent(_, _, _)
ForEachEvent(evs, i, acc) ==
  IF i > Len(evs) THEN acc
  ELSE ForEachEvent(evs, i + 1,
                    IF HasDateTime(evs[i].start) /\ HasDateTime(evs[i].end)
                    THEN [totalMinutes  |-> acc.totalMinutes + (evs[i].end.t - evs[i].start.t),
                          meetingsByDay |-> Counted(acc.meetingsByDay, DayKey(evs[i].start.t))]
                    ELSE acc)

StatsOfTotals(totalMeetings, acc) ==
  [kind |-> "viewStats",
   totalMeetings |-> totalMeetings,
   totalHours |-> Ratio(acc.totalMinutes, 60),
   averageMeetingDuration |-> IF totalMeetings > 0 THEN Ratio(acc.totalMinutes, totalMeetings)
                              ELSE Ratio(0, 1),
   meetingsByDay |-> acc.meetingsByDay]

\* the statistics with the events of a precise start and end as the count
CalendarServiceStatsOfPrecise(evs) ==
  StatsOfTotals(Len(SelectSeq(evs, IsPrecise)),
                ForEachEvent(evs, 1, [totalMinutes |-> 0, meetingsByDay |-> [d \in {} |-> 0]]))

\* CalendarService.calculateMeetingStats
CalendarService_calculateMeetingStats(evs) ==
  StatsOfTotals(Len(evs),
                ForEachEvent(evs, 1, [totalMinutes |-> 0, meetingsByDay |-> [d \in {} |-> 0]]))

\* the calendar view shows the statistics of the held events
ShowStats ==
  /\ pc = "idle"
  /\ response' = CalendarService_calculateMeetingStats(events)
  /\ pc' = "done"
  /\ UNCHANGED <<now, events, backend, request, calls, auth>>

\* CalendarAgent.processMessage, up to the statistics it hands on
processMessage ==
  /\ pc = "idle"
  /\ response' = calculateMeetingStats(events)
  /\ pc' = "done"
  /\ UNCHANGED <<now, events, backend, request, calls, auth>>

NextStats == processMessage \/ ShowStats \/ NextMessage

SpecStats == InitStats /\ [][NextStats]_vars

StatsAnswered == pc = "done" /\ response.kind = "stats"

\* the events with a precise start and a precise end
PreciseEvents == SelectSeq(events, IsPrecise)

SameRatio(a, b) == a.num * b.den = b.num * a.den

\* C14: count, total hours, average minutes and per-day counts are those of
\* the events with a precise start and end alone, whatever whole-day events
\* the list holds besides; events of 1h and 30m give count 2, 1.5 hours and
\* an average of 45 minutes, and the empty list an average of 0.
C14_WholeDayInvisible ==
  StatsAnswered =>
    /\ response.totalMeetings = Len(PreciseEvents)
    /\ SameRatio(response.totalHours, Ratio(TotalMinutes(PreciseEvents), 60))
    /\ SameRatio(response.averageMeetingDuration,
                 IF Len(PreciseEvents) > 0
                 THEN Ratio(TotalMinutes(PreciseEvents), Len(PreciseEvents))
                 ELSE Ratio(0, 1))
    /\ response.meetingsByDay = MeetingsByDay(PreciseEvents)
    /\ events = EventsOf(<<Span(9, 0, 10, 0), Span(11, 0, 11, 30)>>) =>
         /\ response.totalMeetings = 2
         /\ SameRatio(response.totalHours, Ratio(3, 2))
         /\ SameRatio(response.averageMeetingDuration, Ratio(45, 1))
    /\ events = <<>> => SameRatio(response.averageMeetingDuration, Ratio(0, 1))

(***************************************************************************)
(* Severity of a conflict                                                  *)
(***************************************************************************)
MaxOverlap == 75

\* a three-hour event and one that starts with it and lasts m minutes
OverlappingBy(m) ==
  EventsOf(<<Span(9, 0, 12, 0), <<DateTimeOf(At0(9, 0)), DateTimeOf(At0(9, 0) + m)>> >>)

InitSeverity ==
  /\ now = Now0
  /\ auth = SignedIn
  /\ events \in {OverlappingBy(m) : m \in 1..MaxOverlap}
  /\ backend = <<>>
  /\ pc = "idle"
  /\ request = NoRequest
  /\ response = NoResponse
  /\ calls = <<>>

NextSeverity == HandleFindConflicts \/ NextMessage

SpecSeverity == InitSeverity /\ [][NextSeverity]_vars

Major == "Major Conflict (1+ hour overlap)"

Significant == "Significant Conflict (30+ minutes)"

Moderate == "Moderate Conflict (15+ minutes)"

Minor == "Minor Conflict (< 15 minutes)"

\* C15: the severity of a reported conflict of m overlap minutes is major iff
\* m >= 60, significant iff 30 <= m < 60, moderate iff 15 <= m < 30 and minor
\* iff m < 15: 60 is major, 59 and 30 significant, 29 and 15 moderate, 14
\* minor.
C15_SeverityBounds ==
  ConflictsAnswered =>
    \A k \in 1..Len(response.conflicts) :
      LET m == response.conflicts[k].overlapDuration
          t == response.conflicts[k].conflictType
      IN /\ t \in {Major, Significant, Moderate, Minor}
         /\ t = Major <=> m >= 60
         /\ t = Significant <=> (30 <= m /\ m < 60)
         /\ t = Moderate <=> (15 <= m /\ m < 30)
         /\ t = Minor <=> m < 15
         /\ m = 60 => t = Major
         /\ m \in {59, 30} => t = Significant
         /\ m \in {29, 15} => t = Moderate
         /\ m = 14 => t = Minor

\* an overlap of exactly an hour was reported as major
C15_Witness ==
  /\ ConflictsAnswered
  /\ events = OverlappingBy(60)
  /\ Len(response.conflicts) = 1
  /\ response.conflicts[1].overlapDuration = 60
  /\ response.conflicts[1].conflictType = Major

(***************************************************************************)
(* Timeframes, and the order of the snapshot                               *)
(***************************************************************************)
\* the first instant after the month of t
NextMonth(t) == ((DayOf(t) \div DaysPerMonth) + 1) * DaysPerMonth * MinutesPerDay

\* the instant an event starts
StartInstant(e) == getLocalEventTime(e.start)

\* the events a timeframe keyword stands for
InTimeframe(tf, e) ==
  IF ToLower(tf) = Today THEN DayOf(StartInstant(e)) = DayOf(now)
  ELSE IF ToLower(tf) = Tomorrow THEN DayOf(StartInstant(e)) = DayOf(now) + 1
  ELSE IF ToLower(tf) \in {Week, ThisWeek}
  THEN Midnight(now) <= StartInstant(e) /\ StartInstant(e) <= Midnight(now) + 7 * MinutesPerDay
  ELSE IF ToLower(tf) = Month
  THEN Midnight(now) <= StartInstant(e) /\ StartInstant(e) < NextMonth(now)
  ELSE TRUE

\* C17: findConflicts considers exactly the events that start today for
\* 'today', tomorrow for 'tomorrow', from today's midnight through today + 7
\* days for 'week' and 'this week', from today's midnight through the end of
\* the month, its whole last day included, for 'month', and every event for
\* any other keyword.
C17_TimeframeEvents ==
  ConflictsAnswered =>
    LET tf == request.args.timeframe[1]
        considered(e) == InTimeframe(tf, e)
    IN response.timeframeEvents = SelectSeq(events, considered)

MaxOrderEvents == 3

\* events that start together, overlap, nest and touch, and a whole-day one
OrderSpans ==
  { Span(9, 0, 9, 15), Span(9, 0, 11, 0), Span(9, 10, 9, 40), Span(9, 15, 10, 15),
    <<DateOf(Day0), DateOf(Day0 + 1)>> }

InitOrder ==
  /\ now = Now0
  /\ auth = SignedIn
  /\ events \in {EventsOf(f) : f \in Lists(OrderSpans, MaxOrderEvents)}
  /\ backend = <<>>
  /\ pc = "idle"
  /\ request = NoRequest
  /\ response = NoResponse
  /\ calls = <<>>

NextOrder == HandleFindConflicts \/ NextMessage

SpecOrder == InitOrder /\ [][NextOrder]_vars

\* the reports as unordered pairs with their minutes and severity
PairsOf(conflicts) ==
  {[pair |-> {conflicts[k].event1.id, conflicts[k].event2.id},
    overlapDuration |-> conflicts[k].overlapDuration,
    conflictType |-> conflicts[k].conflictType] : k \in 1..Len(conflicts)}

Reordered(evs, p) == [i \in 1..Len(evs) |-> evs[p[i]]]

\* C16: for every permutation of the snapshot findConflicts reports the same
\* unordered conflict pairs, each with the same minutes and severity.
C16_OrderIndependent ==
  ConflictsAnswered =>
    \A p \in Permutations(1..Len(events)) :
      LET other == findConflicts(request.args.timeframe[1], Reordered(events, p)).conflicts
      IN /\ PairsOf(other) = PairsOf(response.conflicts)
         /\ Len(other) = Len(response.conflicts)

\* three events, two of which start together, with three conflicts
C16_Witness ==
  /\ ConflictsAnswered
  /\ events = EventsOf(<<Span(9, 10, 9, 40), Span(9, 0, 11, 0), Span(9, 0, 9, 15)>>)
  /\ Len(response.conflicts) = 3
  /\ response.conflicts[1].event1.id = EventIds[2]
  /\ response.conflicts[1].event2.id = EventIds[3]

(***************************************************************************)
(* The slots of a day                                                      *)
(***************************************************************************)
\* the timed events of the day, as positions of response.dayEvents
TimedPositions == {i \in 1..Len(response.dayEvents) : HasDateTime(response.dayEvents[i].start)}

\* C18: findFreeSlots emits at most one slot per free gap, at the start of
\* the gap (the window start or the running maximum of the event ends), and
\* never several in one gap: one event 10:00-11:00 in 09:00-17:00 with D = 60
\* gives exactly 09:00-10:00 and 11:00-12:00, and there are at most as many
\* slots as timed events plus one.
C18_OneSlotPerGap ==
  SlotsAnswered =>
    LET E == TimedOf(response.dayEvents)
        S == response.slots
    IN /\ Len(S) <= Cardinality(TimedPositions) + 1
       /\ \A k \in 1..Len(S) :
            /\ S[k].start >= response.dayStart
            /\ \A e \in E : e.start.t <= S[k].start => e.end.t <= S[k].start
            /\ \/ S[k].start = response.dayStart
               \/ \E e \in E : e.start.t <= S[k].start /\ e.end.t = S[k].start
       /\ \A j \in 1..Len(S), k \in 1..Len(S) :
            j < k => \E e \in E : S[j].end <= e.start.t /\ e.end.t <= S[k].start
       /\ (/\ Len(response.dayEvents) = 1
           /\ response.dayEvents[1].start = DateTimeOf(At0(10, 0))
           /\ response.dayEvents[1].end = DateTimeOf(At0(11, 0))
           /\ response.dayStart = At0(9, 0)
           /\ response.dayEnd = At0(17, 0)
           /\ response.durationMinutes = 60)
          => S = <<[start |-> At0(9, 0), end |-> At0(10, 0)],
                   [start |-> At0(11, 0), end |-> At0(12, 0)]>>

\* the one event 10:00-11:00 was answered with the two slots
C18_Witness ==
  /\ SlotsAnswered
  /\ events = EventsOf(<<Span(10, 0, 11, 0)>>)
  /\ response.dayStart = At0(9, 0)
  /\ response.dayEnd = At0(17, 0)
  /\ response.durationMinutes = 60
  /\ Len(response.slots) = 2
  /\ response.slots[2].start = At0(11, 0)

C20_StartKeptWithoutNewStart ==
  (UpdateSent /\ ~TruthyText(request.args.startTime)) =>
    LET a == request.args
        x == response.existing[1]
        p == response.payload[1]
    IN /\ p.start = <<x.start>>
       /\ TruthyText(a.endTime) => p.end = <<DateTimeOf(parseDateTime(a.endTime[1]))>>
       /\ (TruthyText(a.endTime) /\ a.endTime[1] = NlText(<<"3","p","m">>))
            => p.end = <<DateTimeOf(At0(15, 0))>>
       /\ ~TruthyText(a.endTime) => p.end = <<x.end>>

\* a duration alone was given for the 10:00-10:30 event
C20_Witness ==
  /\ UpdateSent
  /\ ~TruthyText(request.args.startTime)
  /\ ~TruthyText(request.args.endTime)
  /\ Truthy(request.args.duration)
  /\ response.payload[1].start = <<DateTimeOf(At0(10, 0))>>
  /\ response.payload[1].end = <<DateTimeOf(At0(10, 30))>>

\* C21: an update that gives both a new startTime and a duration sends
\* end = the parsed new start plus the parsed duration, whatever the length
\* of the existing event and whatever endTime the same request gives;
\* "2pm" with "45 minutes" ends at 14:45.
C21_DurationOverridesEnd ==
  (UpdateSent /\ TruthyText(request.args.startTime) /\ Truthy(request.args.duration)) =>
    LET a        == request.args
        p        == response.payload[1]
        newStart == parseDateTime(a.startTime[1])
    IN /\ p.start = <<DateTimeOf(newStart)>>
       /\ p.end = <<DateTimeOf(newStart + parseDurationToMinutes(a.duration[1]))>>
       /\ (a.startTime[1] = NlText(<<"2","p","m">>)
            /\ a.duration[1] = <<"4","5"," ","m","i","n","u","t","e","s">>)
            => p.end = <<DateTimeOf(At0(14, 45))>>
       /\ (a.startTime[1] = NlText(<<"2","p","m">>)
            /\ a.duration[1] = <<"2"," ","h","o","u","r","s">>)
            => p.end = <<DateTimeOf(At0(16, 0))>>

\* the 10:00-10:30 event was moved to 2pm for 45 minutes by a request that
\* also asked for an end at 3pm
C21_Witness ==
  /\ UpdateSent
  /\ request.args.startTime = <<NlText(<<"2","p","m">>)>>
  /\ request.args.endTime = <<NlText(<<"3","p","m">>)>>
  /\ request.args.duration = <<<<"4","5"," ","m","i","n","u","t","e","s">>>>
  /\ response.existing[1].start.t = At0(10, 0)
  /\ response.existing[1].end.t = At0(10, 30)
  /\ response.payload[1].end = <<DateTimeOf(At0(14, 45))>>

\* a field of the request is present: a text that is not "", an array of any
\* length
Identified(args) == Truthy(args.eventId) \/ Truthy(args.eventTitle) \/ Truthy(args.summary)

ChangesSomething(args) ==
  \/ Truthy(args.summary) \/ Truthy(args.description)
  \/ TruthyText(args.startTime) \/ TruthyText(args.endTime)
  \/ TruthyArray(args.attendees) \/ Truthy(args.location) \/ Truthy(args.duration)

\* C22: an update request fails validation exactly when it has no
\* identifying field (eventId, eventTitle, summary) or no field to change
\* (summary, description, startTime, endTime, attendees, location,
\* duration); a delete request fails validation exactly when it has no
\* identifying field; a failed validation answers with the clarification
\* text, the resolver has not run and no backend call was made.
C22_ValidationFailures ==
  (pc = "done" /\ response.kind \in {"update", "delete"}) =>
    LET a == request.args
        failed == response.outcome = "clarification"
    IN /\ response.kind = "update" => (failed <=> (~Identified(a) \/ ~ChangesSomething(a)))
       /\ response.kind = "delete" => (failed <=> ~Identified(a))
       /\ failed =>
            /\ response.text = (IF response.kind = "update"
                                THEN "I need more information to update your event:"
                                ELSE "I need to know which event to delete:")
            /\ response.resolution = <<>>
            /\ calls = <<>>
            /\ backend = events

\* an update that names an existing event and changes nothing was asked to
\* clarify
C22_Witness ==
  /\ pc = "done"
  /\ response.kind = "update"
  /\ request.args = [NoArgs EXCEPT !.eventTitle = <<TeamSync>>]
  /\ \E i \in 1..Len(events) : events[i].summary = TeamSync
  /\ response.outcome = "clarification"
  /\ response.validation.missing = <<"update details">>
  /\ calls = <<>>

(***************************************************************************)
(* Dispatch: CalendarAgent.processMessage, processCalendarQuery and        *)
(* handleFunctionCall.  A call ends with a returned text or with a thrown  *)
(* exception; the language model's completion is an input.                 *)
(***************************************************************************)
Reply(text) == [threw |-> FALSE, text |-> text]

Exception == [threw |-> TRUE, text |-> ""]

\* recipients.forEach of an undefined recipients throws
generateEmailDrafts(recipients) ==
  IF recipients = <<>> THEN Exception ELSE Reply("Email Drafts Generated")

analyzeMeetingTime(stats) == Reply("Your Meeting Analysis")

\* completionOk: whether the completion request of the recommendations
\* succeeds; the catch block answers with the basic recommendations
provideRecommendations(stats, completionOk) ==
  IF completionOk THEN Reply("Personalized Calendar Recommendations")
  ELSE Reply("Calendar Recommendations")

\* timeframe.toLowerCase() of an undefined timeframe throws
findConflictsText(timeframe, evs) ==
  IF timeframe = <<>> THEN Exception
  ELSE IF findConflicts(timeframe[1], evs).conflicts = <<>> THEN Reply("No Conflicts Found")
  ELSE Reply("Calendar Conflicts Detected")

findAvailableTimeSlotsText(args, evs) ==
  IF findAvailableTimeSlots(args, evs).slots = <<>> THEN Reply("No available time slots found")
  ELSE Reply("Available Time Slots")

\* filteredEvents after the timeframe filter and the keyword filter
listUpcomingEvents(evs, timeframe, filter) ==
  LET inFrame == IF Truthy(timeframe) THEN TimeframeFilter(timeframe[1], evs) ELSE evs
      matches(e) ==
        \/ Includes(ToLower(e.summary), ToLower(filter[1]))
        \/ (Truthy(e.description) /\ Includes(ToLower(e.description[1]), ToLower(filter[1])))
  IN [kind |-> "list",
      filteredEvents |-> IF Truthy(filter) THEN SelectSeq(inFrame, matches) ELSE inFrame]

listUpcomingEventsText(evs, timeframe, filter) ==
  IF listUpcomingEvents(evs, timeframe, filter).filteredEvents = <<>>
  THEN Reply("No events found")
  ELSE Reply("Upcoming Events")

KnownNames ==
  { "generate_email_drafts", "analyze_meeting_time", "provide_recommendations",
    "find_conflicts", "find_available_time_slots", "create_calendar_event",
    "update_calendar_event", "delete_calendar_event", "list_upcoming_events" }

\* a handler that calls no backend
Quiet(reply, store) == [reply |-> reply, caught |-> <<>>, calls |-> <<>>, backend |-> store]

\* a handler that may call the backend
Called(r) ==
  [reply |-> Reply(r.response.text), caught |-> <<>>, calls |-> r.calls, backend |-> r.backend]

\* a catch block: the exception thrown inside it is answered with its text
Caught(r, place, text) ==
  IF r.reply.threw THEN [r EXCEPT !.reply = Reply(text), !.caught = Append(@, place)] ELSE r

\* parsedArgs: {} when the argument string is not JSON; the string "null" is
\* JSON and parses to null
ParsedArgs(arguments) == IF arguments.json = "invalid" THEN NoArgs ELSE arguments.value

\* the switch of handleFunctionCall; ok: which of the calls to the backend
\* and to the language model succeed
FunctionSwitch(name, parsedArgs, evs, stats, store, ok) ==
  IF name = "generate_email_drafts" THEN Quiet(generateEmailDrafts(parsedArgs.recipients), store)
  ELSE IF name = "analyze_meeting_time" THEN Quiet(analyzeMeetingTime(stats), store)
  ELSE IF name = "provide_recommendations"
  THEN Quiet(provideRecommendations(stats, ok.completion), store)
  ELSE IF name = "find_conflicts" THEN Quiet(findConflictsText(parsedArgs.timeframe, evs), store)
  ELSE IF name = "find_available_time_slots"
  THEN Quiet(findAvailableTimeSlotsText(parsedArgs, evs), store)
  ELSE IF name = "create_calendar_event"
  THEN Called(createCalendarEvent(parsedArgs, store, ok.mutate))
  ELSE IF name = "update_calendar_event"
  THEN Called(updateCalendarEvent(parsedArgs, evs, store, ok.get, ok.mutate))
  ELSE IF name = "delete_calendar_event"
  THEN Called(deleteCalendarEvent(parsedArgs, evs, store, ok.get, ok.mutate))
  ELSE IF name = "list_upcoming_events"
  THEN Quiet(listUpcomingEventsText(evs, parsedArgs.timeframe, parsedArgs.filter), store)
  ELSE Quiet(Reply("I don't know how to handle that request."), store)

\* reading a property of null throws, in every case but the default
handleFunctionCall(functionCall, evs, stats, store, ok) ==
  IF functionCall.arguments.json = "null" /\ functionCall.name \in KnownNames
  THEN Quiet(Exception, store)
  ELSE FunctionSwitch(functionCall.name, ParsedArgs(functionCall.arguments), evs, stats, store, ok)

\* the system prompt reads summary and start of the first ten events and the
\* three numbers of the statistics; with events and statistics of their
\* types it returns
createSystemPrompt(evs, stats) == Reply("You are an intelligent calendar assistant")

\* the try block of processCalendarQuery
QueryAttempt(completion, evs, stats, store, ok) ==
  IF completion.kind = "rejected" THEN Quiet(Exception, store)
  ELSE IF completion.kind = "tool_call"
  THEN handleFunctionCall(completion.function, evs, stats, store, ok)
  ELSE Quiet(Reply(IF completion.content # <<>> /\ completion.content[1] # ""
                   THEN completion.content[1]
                   ELSE "I'm sorry, I couldn't process that request."), store)

\* the query with no catch block around the completion and the call
processCalendarQueryUncaught(completion, evs, stats, store, ok) ==
  QueryAttempt(completion, evs, stats, store, ok)

\* completion: the language model's answer, or the failure of the request
processCalendarQuery(completion, evs, stats, store, ok) ==
  IF createSystemPrompt(evs, stats).threw THEN Quiet(Exception, store)
  ELSE Caught(QueryAttempt(completion, evs, stats, store, ok),
              "processCalendarQuery",
              "I'm having trouble connecting to my AI services. Please try again later.")

\* CalendarAgent.processMessage: the statistics, the query, and the catch
\* block around both
AgentReply(completion, evs, store, ok) ==
  Caught(processCalendarQuery(completion, evs, calculateMeetingStats(evs), store, ok),
         "processMessage",
         "I'm having trouble processing your request right now. Please try again later.")

\* the array of events after a handler that filters and sorts it in place
GivenSorted(name, evs) ==
  IF name \in {"find_conflicts", "find_available_time_slots"}
  THEN LET timed(e) == HasDateTime(e.start)
           rest(e)  == ~HasDateTime(e.start)
           precise  == SelectSeq(evs, timed)
           rank(i)  == 1 + Cardinality({j \in 1..Len(precise) :
                                          \/ precise[j].start.t < precise[i].start.t
                                          \/ (precise[j].start.t = precise[i].start.t /\ j < i)})
       IN [k \in 1..Len(precise) |-> precise[CHOOSE i \in 1..Len(precise) : rank(i) = k]]
          \o SelectSeq(evs, rest)
  ELSE evs

\* the array of events a handler was given, after the handler: the sorts act
\* on the arrays filter() returned and the timeframe filters on [...events]
Given(name, evs) == evs

NoFunction == [name |-> "", arguments |-> [json |-> "object", value |-> NoArgs]]

FunctionOf(completion) ==
  IF completion.kind = "tool_call" THEN completion.function ELSE NoFunction

\* the state once the message is answered
ChatAnswered(completion, f, m) ==
  /\ request' = [name |-> f.name, args |-> ParsedArgs(f.arguments),
                 json |-> f.arguments.json, completion |-> completion.kind]
  /\ response' = [kind |-> "message", text |-> m.reply.text, threw |-> m.reply.threw,
                  caught |-> m.caught]
  /\ calls' = m.calls
  /\ backend' = m.backend
  /\ events' = Given(f.name, events)
  /\ pc' = "done"
  /\ UNCHANGED <<now, auth>>

\* App.handleChatMessage: a new CalendarAgent over the held events handles
\* the message
HandleChatMessage(Completions) ==
  /\ pc = "idle"
  /\ \E completion \in Completions, getOk \in BOOLEAN, mutateOk \in BOOLEAN,
        completionOk \in BOOLEAN :
       ChatAnswered(completion, FunctionOf(completion),
                    AgentReply(completion, events, backend,
                               [get |-> getOk, mutate |-> mutateOk, completion |-> completionOk]))

ToolCall(name, value) ==
  [kind |-> "tool_call",
   function |-> [name |-> name, arguments |-> [json |-> "object", value |-> value]]]

\* the argument string is not JSON, or is the JSON text null
BrokenCall(name, json) ==
  [kind |-> "tool_call", function |-> [name |-> name, arguments |-> [json |-> json, value |-> NoArgs]]]

UnknownNames == { "send_invoice", "" }

DispatchTimeframes == { <<>>, <<Today>>, <<Month>>, <<All>>, << <<>> >> }

DispatchCompletions ==
  {[kind |-> "rejected"]}
  \cup {[kind |-> "content", content |-> c] : c \in {<<>>, <<"">>, <<"You have a busy week.">>}}
  \cup {BrokenCall(n, j) : n \in KnownNames \cup UnknownNames, j \in {"invalid", "null"}}
  \cup {ToolCall(n, NoArgs) : n \in KnownNames \cup UnknownNames}
  \cup {ToolCall("generate_email_drafts", [NoArgs EXCEPT !.recipients = r]) :
          r \in {<< <<>> >>, << <<AnnMail, BobMail>> >>}}
  \cup {ToolCall("find_conflicts", [NoArgs EXCEPT !.timeframe = tf]) : tf \in DispatchTimeframes}
  \cup {ToolCall("list_upcoming_events", [NoArgs EXCEPT !.timeframe = tf, !.filter = fi]) :
          tf \in DispatchTimeframes, fi \in {<<>>, <<QuerySyn>>}}
  \cup {ToolCall("find_available_time_slots", [NoArgs EXCEPT !.duration = d]) : d \in SlotDurations}
  \cup {ToolCall("create_calendar_event", a) : a \in RequestCreateArgs}
  \cup {ToolCall("update_calendar_event", a) : a \in RequestUpdateArgs}
  \cup {ToolCall("delete_calendar_event", a) : a \in RequestDeleteArgs}
  \cup {ToolCall("send_invoice", [NoArgs EXCEPT !.summary = <<Lunch>>])}

Reversed(s) == [i \in 1..Len(s) |-> s[Len(s) + 1 - i]]

\* the snapshots in the order of their starts and in the opposite order
DispatchSnapshots ==
  EditSnapshots
  \cup {IdentifiedEventsOf(Reversed(LET picked(e) == e \in S IN SelectSeq(EditProtos, picked))) :
          S \in {P \in SUBSET {EditProtos[i] : i \in 1..Len(EditProtos)} :
                   Cardinality(P) <= MaxEditEvents}}

InitDispatch ==
  /\ now = Now0
  /\ auth = SignedIn
  /\ events \in DispatchSnapshots
  /\ backend = events
  /\ pc = "idle"
  /\ request = NoRequest
  /\ response = NoResponse
  /\ calls = <<>>

NextDispatch == HandleChatMessage(DispatchCompletions)

SpecDispatch == InitDispatch /\ [][NextDispatch]_vars

MessageAnswered == pc = "done" /\ response.kind = "message"

\* C23: whatever the function name (one of the nine or another) and the
\* arguments (a field the handler needs missing, a string that is not JSON,
\* backend calls that fail), the message is answered with a text: no
\* exception leaves processCalendarQuery nor CalendarAgent.processMessage;
\* a name that is none of the nine is answered with the fixed text.
C23_AlwaysAText ==
  MessageAnswered =>
    /\ ~response.threw
    /\ "processMessage" \notin {response.caught[i] : i \in 1..Len(response.caught)}
    /\ response.text # ""
    /\ (request.completion = "tool_call" /\ request.name \notin KnownNames)
         => response.text = "I don't know how to handle that request."

\* find_conflicts was called with no timeframe: its handler threw and the
\* message was answered all the same
C23_Witness ==
  /\ MessageAnswered
  /\ request.name = "find_conflicts"
  /\ request.json = "object"
  /\ request.args.timeframe = <<>>
  /\ response.caught = <<"processCalendarQuery">>
  /\ response.text = "I'm having trouble connecting to my AI services. Please try again later."

MaxInFlight == 2

MaxSessionEvents == 2

\* calendar.events.list with timeMin, timeMax, singleEvents and orderBy
\* startTime: the events that end after timeMin and start before timeMax, in
\* the order of their starts
getEvents(store, timeMin, timeMax) ==
  LET inWindow(e) == getLocalEventTime(e.end) > timeMin /\ getLocalEventTime(e.start) < timeMax
      listed      == SelectSeq(store, inWindow)
      rank(i)     == 1 + Cardinality({j \in 1..Len(listed) :
                                        \/ getLocalEventTime(listed[j].start) < getLocalEventTime(listed[i].start)
                                        \/ (getLocalEventTime(listed[j].start) = getLocalEventTime(listed[i].start) /\ j < i)})
  IN [k \in 1..Len(listed) |-> listed[CHOOSE i \in 1..Len(listed) : rank(i) = k]]

\* refreshEvents up to its await: the request for the events of today and
\* of the six days after; origin is the caller, signIn or the interval
Fetch(origin, store) ==
  [origin |-> origin,
   items  |-> getEvents(store, getLocalToday, getLocalToday + 7 * MinutesPerDay)]

WithoutFetch(fetches, i) ==
  SubSeq(fetches, 1, i - 1) \o SubSeq(fetches, i + 1, Len(fetches))

\* signIn up to the await of its refreshEvents; outcome: the token request
\* gave a token, returned without one, or was rejected
signIn ==
  /\ ~auth.isAuthenticated
  /\ auth.step = "none"
  /\ Len(auth.fetches) < MaxInFlight
  /\ \E outcome \in {"token", "no token", "rejected"} :
       /\ auth' = IF outcome = "token"
                  THEN [auth EXCEPT !.isAuthenticated = TRUE, !.step = "signIn",
                                    !.fetches = Append(@, Fetch("signIn", backend))]
                  ELSE IF outcome = "no token"
                  THEN [auth EXCEPT !.isAuthenticated = FALSE, !.timer = FALSE]
                  ELSE auth
       /\ events' = IF outcome = "no token" THEN <<>> ELSE events
  /\ UNCHANGED <<now, backend, pc, request, response, calls>>

\* the interval fires: refreshEvents up to its await
AutoRefresh ==
  /\ auth.timer
  /\ Len(auth.fetches) < MaxInFlight
  /\ auth' = [auth EXCEPT !.fetches = Append(@, Fetch("timer", backend))]
  /\ UNCHANGED <<now, events, backend, pc, request, response, calls>>

\* the backend answers a getEvents request: refreshEvents from its await on,
\* and, when signIn awaited it, the rest of signIn (startAutoRefresh)
refreshEvents ==
  /\ \E i \in 1..Len(auth.fetches), ok \in BOOLEAN :
       /\ events' = IF ok THEN auth.fetches[i].items ELSE events
       /\ auth' = IF auth.fetches[i].origin = "signIn"
                  THEN [auth EXCEPT !.fetches = WithoutFetch(@, i), !.timer = TRUE,
                                    !.step = "none"]
                  ELSE [auth EXCEPT !.fetches = WithoutFetch(@, i)]
  /\ UNCHANGED <<now, backend, pc, request, response, calls>>

\* signOut up to the await of authService.signOut()
signOutBegins ==
  /\ auth.isAuthenticated
  /\ auth.step = "none"
  /\ auth' = [auth EXCEPT !.step = "signOut"]
  /\ UNCHANGED <<now, events, backend, pc, request, response, calls>>

\* signOut after the await: setIsAuthenticated(false), setEvents([]),
\* stopAutoRefresh()
signOut ==
  /\ auth.step = "signOut"
  /\ auth' = [auth EXCEPT !.isAuthenticated = FALSE, !.timer = FALSE, !.step = "none"]
  /\ events' = <<>>
  /\ UNCHANGED <<now, backend, pc, request, response, calls>>

SessionCompletions ==
  { ToolCall("create_calendar_event",
             [NoArgs EXCEPT !.summary = <<Dentist>>, !.startTime = <<NlText(<<"2","p","m">>)>>,
                           !.duration = <<<<"4","5"," ","m","i","n","u","t","e","s">>>>]),
    ToolCall("delete_calendar_event", [NoArgs EXCEPT !.eventTitle = <<Dentist>>]),
    ToolCall("delete_calendar_event", [NoArgs EXCEPT !.eventTitle = <<TeamSync>>]),
    ToolCall("find_conflicts", [NoArgs EXCEPT !.timeframe = <<Today>>]) }

\* the chat is shown to a signed-in user while nothing is loading
SessionChat ==
  /\ auth.isAuthenticated
  /\ auth.step = "none"
  /\ Len(backend) < MaxSessionEvents
  /\ HandleChatMessage(SessionCompletions)

InitSession ==
  /\ now = Now0
  /\ auth = SignedOut
  /\ events = <<>>
  /\ backend \in {<<>>, IdentifiedEventsOf(<<EditProtos[1]>>)}
  /\ pc = "idle"
  /\ request = NoRequest
  /\ response = NoResponse
  /\ calls = <<>>

NextSession ==
  \/ signIn
  \/ AutoRefresh
  \/ refreshEvents
  \/ signOutBegins
  \/ signOut
  \/ SessionChat
  \/ NextMessage

SpecSession == InitSession /\ [][NextSession]_vars

\* C24: a message is handled with the events that a fetch made for it
\* returns: the held list is what the backend lists at that moment, so what
\* the message before created, updated or deleted is in it.
C24_SnapshotOfOwnFetch ==
  [][(pc = "idle" /\ pc' = "done") => events = Fetch("message", backend).items]_vars

\* C29: while the user is not signed in the held list of events is empty
\* and no refresh interval is set, whenever the answers of the getEvents
\* requests in flight arrive.
C29_SignedOutHoldsNothing ==
  ~auth.isAuthenticated => (events = <<>> /\ ~auth.timer)

(***************************************************************************)
(* The clock parser on its own: parseTimeForDate, findEventsByTime and     *)
(* parseTimeRange applied to clock texts.                                  *)
(***************************************************************************)
\* the hours of a twelve-hour clock
ClockHours == 1..12

\* the decimal numeral of n < 100, and of n in two digits
Numeral(n) ==
  IF n < 10 THEN <<DigitChars[n + 1]>> ELSE <<DigitChars[(n \div 10) + 1], DigitChars[(n % 10) + 1]>>

TwoDigits(n) == <<DigitChars[(n \div 10) + 1], DigitChars[(n % 10) + 1]>>

ClockMinutes == { <<>>, <<0>>, <<30>>, <<59>> }

ClockPeriods == { <<>>, <<"a","m">>, <<"p","m">>, <<"P","M">>, <<" ","a","m">> }

\* 'H', 'H:MM', 'Ham', 'Hpm', 'H:MMpm'
ClockText(c) ==
  Numeral(c.hour) \o (IF c.minute # <<>> THEN <<":">> \o TwoDigits(c.minute[1]) ELSE <<>>) \o c.period

Clocks == [hour : ClockHours, minute : ClockMinutes, period : ClockPeriods]

RangeEnds ==
  { [hour |-> 5, minute |-> <<>>, period |-> <<"p","m">>],
    [hour |-> 12, minute |-> <<>>, period |-> <<"a","m">>],
    [hour |-> 11, minute |-> <<30>>, period |-> <<>>] }

ClockSpans ==
  << Span(0, 0, 1, 0), Span(2, 30, 3, 0), Span(12, 0, 13, 0), Span(14, 0, 15, 0),
     <<DateOf(Day0), DateOf(Day0 + 1)>> >>

InitClock ==
  /\ now = Now0
  /\ auth = SignedIn
  /\ events = EventsOf(ClockSpans)
  /\ backend = events
  /\ pc = "idle"
  /\ request = NoRequest
  /\ response = NoResponse
  /\ calls = <<>>

ParseTimeForDate ==
  /\ pc = "idle"
  /\ \E c \in Clocks, baseDate \in {getLocalNow, getLocalNow + MinutesPerDay} :
       /\ request' = [name |-> "parseTimeForDate", args |-> NoArgs, clock |-> c,
                      baseDate |-> baseDate]
       /\ response' = [kind |-> "instant", t |-> parseTimeForDate(ClockText(c), baseDate)]
  /\ pc' = "done"
  /\ UNCHANGED <<now, events, backend, calls, auth>>

FindEventsByTime ==
  /\ pc = "idle"
  /\ \E c \in Clocks :
       /\ request' = [name |-> "findEventsByTime", args |-> NoArgs, clock |-> c]
       /\ response' = [kind |-> "matches", matches |-> findEventsByTime(ClockText(c), events)]
  /\ pc' = "done"
  /\ UNCHANGED <<now, events, backend, calls, auth>>

ParseTimeRange ==
  /\ pc = "idle"
  /\ \E c \in Clocks, e \in RangeEnds, dash \in {<<"-">>, <<" ","-"," ">>} :
       /\ request' = [name |-> "parseTimeRange", args |-> NoArgs, clock |-> c, end |-> e]
       /\ response' = [kind |-> "range",
                       range |-> parseTimeRange(ClockText(c) \o dash \o ClockText(e), getLocalNow)]
  /\ pc' = "done"
  /\ UNCHANGED <<now, events, backend, calls, auth>>

NextClock == ParseTimeForDate \/ FindEventsByTime \/ ParseTimeRange

SpecClock == InitClock /\ [][NextClock]_vars

IsPm(c) == c.period = <<"p","m">> \/ c.period = <<"P","M">>

IsAm(c) == c.period = <<"a","m">> \/ c.period = <<" ","a","m">>

\* the hour and the minute the rule gives for a clock text
RuleHour(c) ==
  IF IsPm(c) /\ c.hour # 12 THEN c.hour + 12
  ELSE IF IsAm(c) /\ c.hour = 12 THEN 0
  ELSE c.hour

RuleMinute(c) == IF c.minute # <<>> THEN c.minute[1] ELSE 0

\* C26: for a clock text 'H', 'H:MM', 'Ham', 'Hpm' with H in 1..12 the hour
\* is H + 12 for pm and H # 12, 0 for am and H = 12, H otherwise, and the
\* minute is MM, or 0 without minutes; 'Hpm' is (H mod 12) + 12 o'clock,
\* '12pm' is 12:00 and '12am' is 00:00; parseTimeForDate, findEventsByTime
\* and parseTimeRange all apply this rule.
C26_ClockRule ==
  (pc = "done" /\ response.kind \in {"instant", "matches", "range"}) =>
    LET c == request.clock IN
    /\ IsPm(c) => RuleHour(c) = (c.hour % 12) + 12
    /\ response.kind = "instant" =>
         response.t = Midnight(request.baseDate) + RuleHour(c) * 60 + RuleMinute(c)
    /\ response.kind = "matches" =>
         response.matches =
           LET atRule(e) == /\ HasDateTime(e.start)
                            /\ e.start.t % MinutesPerDay = RuleHour(c) * 60 + RuleMinute(c)
           IN SelectSeq(events, atRule)
    /\ response.kind = "range" =>
         /\ response.range.startTime = Midnight(now) + RuleHour(c) * 60 + RuleMinute(c)
         /\ response.range.endTime
              = Midnight(now) + RuleHour(request.end) * 60 + RuleMinute(request.end)

\* '12am' found the event that starts at midnight
C26_Witness ==
  /\ pc = "done"
  /\ response.kind = "matches"
  /\ ClockText(request.clock) = <<"1","2","a","m">>
  /\ Len(response.matches) = 1
  /\ response.matches[1].start.t = At0(0, 0)

(***************************************************************************)
(* The duration parser on its own                                          *)
(***************************************************************************)
MaxAmount == 12

HourUnits == { <<"h","o","u","r">>, <<"h","o","u","r","s">>, <<"h","r">>, <<"h","r","s">>, <<"h">>,
               <<"H","o","u","r","s">> }

MinuteUnits == { <<"m","i","n","u","t","e">>, <<"m","i","n","u","t","e","s">>, <<"m","i","n">>,
                 <<"m","i","n","s">>, <<"m">>, <<"M","I","N">> }

\* what follows the amount when it is no unit
NoUnits == { <<>>, <<"d","a","y","s">>, <<"x">> }

Amounts == (1..MaxAmount) \cup {45, 90}

Garbage == <<"g","a","r","b","a","g","e">>

DurationInputs ==
  [amount : Amounts, blank : {<<>>, <<" ">>}, unit : HourUnits \cup MinuteUnits \cup NoUnits,
   prefix : {<<>>, <<"f","o","r"," ">>}]

DurationText(d) == d.prefix \o Numeral(d.amount) \o d.blank \o d.unit

InitDuration ==
  /\ now = Now0
  /\ auth = SignedIn
  /\ events = <<>>
  /\ backend = <<>>
  /\ pc = "idle"
  /\ request = NoRequest
  /\ response = NoResponse
  /\ calls = <<>>

\* a text made of an amount and what follows it
ParseDuration ==
  /\ pc = "idle"
  /\ \E d \in DurationInputs :
       /\ request' = [name |-> "parseDurationToMinutes", args |-> NoArgs, input |-> <<d>>,
                      text |-> DurationText(d)]
       /\ response' = [kind |-> "minutes", value |-> parseDurationToMinutes(DurationText(d))]
  /\ pc' = "done"
  /\ UNCHANGED <<now, events, backend, calls, auth>>

\* a text with no amount in it
ParseGarbage ==
  /\ pc = "idle"
  /\ \E text \in {Garbage, <<>>, <<"a"," ","w","h","i","l","e">>, <<"h","o","u","r">>} :
       /\ request' = [name |-> "parseDurationToMinutes", args |-> NoArgs, input |-> <<>>,
                      text |-> text]
       /\ response' = [kind |-> "minutes", value |-> parseDurationToMinutes(text)]
  /\ pc' = "done"
  /\ UNCHANGED <<now, events, backend, calls, auth>>

NextDuration == ParseDuration \/ ParseGarbage

SpecDuration == InitDuration /\ [][NextDuration]_vars

\* C27: an integer n and an hour unit (hour, hours, hr, hrs, h) give n * 60,
\* an integer n and a minute unit (minute, minutes, min, mins, m) give n, a
\* text with no amount and unit gives 60; '2 hours' gives 120, '45 minutes'
\* gives 45 and 'garbage' gives 60.
C27_DurationMinutes ==
  (pc = "done" /\ response.kind = "minutes") =>
    /\ request.input # <<>> =>
         LET d == request.input[1] IN
         response.value = IF d.unit \in HourUnits THEN d.amount * 60
                          ELSE IF d.unit \in MinuteUnits THEN d.amount
                          ELSE 60
    /\ request.input = <<>> => response.value = 60
    /\ request.text = <<"2"," ","h","o","u","r","s">> => response.value = 120
    /\ request.text = <<"4","5"," ","m","i","n","u","t","e","s">> => response.value = 45
    /\ request.text = Garbage => response.value = 60

\* '2 hours' was parsed to 120
C27_Witness ==
  /\ pc = "done"
  /\ response.kind = "minutes"
  /\ request.text = <<"2"," ","h","o","u","r","s">>
  /\ response.value = 120

\* an interval of the asked length lies in the window and meets no timed
\* event of the day
FreeIntervalExists ==
  \E a \in response.dayStart..(response.dayEnd - response.durationMinutes) :
    \A e \in TimedOf(response.dayEvents) :
      a + response.durationMinutes <= e.start.t \/ e.end.t <= a

\* C28: when the window holds an interval of at least D minutes that meets
\* no timed event, findFreeSlots returns at least one slot, whatever the
\* order of the events and whether they overlap or lie outside the window.
C28_SlotFoundWhenFree ==
  (SlotsAnswered /\ FreeIntervalExists) => response.slots # <<>>

\* two timed events given latest first, the window busy at its start, and
\* a slot found after them
C28_Witness ==
  /\ SlotsAnswered
  /\ FreeIntervalExists
  /\ Len(response.dayEvents) = 2
  /\ HasDateTime(response.dayEvents[1].start)
  /\ HasDateTime(response.dayEvents[2].start)
  /\ response.dayEvents[2].start.t < response.dayEvents[1].start.t
  /\ response.dayEvents[2].start.t <= response.dayStart
  /\ response.slots # <<>>
  /\ response.slots[1].start > response.dayStart

\* the sum of the counts of meetingsByDay
RECURSIVE SumOfCounts(_, _)
SumOfCounts(meetingsByDay, days) ==
  IF days = {} THEN 0
  ELSE LET d == CHOOSE x \in days : TRUE
       IN meetingsByDay[d] + SumOfCounts(meetingsByDay, days \ {d})

\* C30: CalendarService.calculateMeetingStats and
\* CalendarAgent.calculateMeetingStats give the same totalMeetings,
\* totalHours, averageMeetingDuration and meetingsByDay for every list of
\* events, and in both the counts of meetingsByDay add up to the number of
\* events with a precise start and a precise end.
C30_SameStatistics ==
  (pc = "done" /\ response.kind \in {"stats", "viewStats"}) =>
    LET agent == calculateMeetingStats(events)
        view  == CalendarService_calculateMeetingStats(events)
    IN /\ response = IF response.kind = "stats" THEN agent ELSE view
       /\ view.totalMeetings = agent.totalMeetings
       /\ view.totalHours = agent.totalHours
       /\ view.averageMeetingDuration = agent.averageMeetingDuration
       /\ view.meetingsByDay = agent.meetingsByDay
       /\ SumOfCounts(view.meetingsByDay, DOMAIN view.meetingsByDay) = Len(PreciseEvents)
       /\ SumOfCounts(agent.meetingsByDay, DOMAIN agent.meetingsByDay) = Len(PreciseEvents)

\* the view counted two meetings on one day beside a whole-day event
C30_Witness ==
  /\ pc = "done"
  /\ response.kind = "viewStats"
  /\ Len(events) = 3
  /\ Len(PreciseEvents) = 2
  /\ DOMAIN response.meetingsByDay = {Day0}
  /\ response.meetingsByDay[Day0] = 2
  /\ response.totalMeetings = 3

====
